---------------------------- MODULE Spec2Model ----------------------------
(***************************************************************************)
(* BreathEasy SG: the point scorer, the traffic exhaust model, the zone    *)
(* classifiers, the grid lookup and the route rating of the scoring engine *)
(* (v3, exhaust-volume model).                                             *)
(*                                                                         *)
(* Numbers.  The engine computes in IEEE doubles.  The route rating is     *)
(* modelled in doubles, bit for bit (see IEEE doubles below).  For the     *)
(* point scorer, the traffic model and the zone geometry every quantity is *)
(* an exact integer multiple of a stated unit:                             *)
(*   - coordinates: microdegrees (1.2836 deg is 1283600);                  *)
(*   - planar offsets: the nearest whole metre; distances: the floor of   *)
(*     the distance between whole-metre offsets;                           *)
(*   - scores, bases and modifiers: 1/Unit, Unit = 30000, which holds every *)
(*     value the engine can form from one-decimal modifiers and a buffer   *)
(*     distance in metres without rounding;                                *)
(*   - congestion ratios: thousandths; road volume: hundredths; emission   *)
(*     multiplier: tenths; percentages: integers.                          *)
(* There Math.round(x) is floor(x + 1/2) of the exact value.               *)
(* Texts are ASCII (a dash for the source's long dash).  An optional value *)
(* (hour?, frc?, conditions | null) is the empty sequence when absent and  *)
(* a one-element sequence when present.                                    *)
(***************************************************************************)
EXTENDS Integers, Sequences, FiniteSets, TLC

None == << >>
Some(x) == << x >>
IsSome(o) == Len(o) > 0
Get(o) == o[1]

Abs(x) == IF x < 0 THEN -x ELSE x
Min(a, b) == IF a < b THEN a ELSE b
Max(a, b) == IF a > b THEN a ELSE b

\* a / b rounded to the nearest integer, halves away from zero (b > 0)
DivNearest(a, b) ==
  IF a >= 0 THEN (a + b \div 2) \div b ELSE -((-a + b \div 2) \div b)

\* Math.round(a / b) for b > 0: floor(a/b + 1/2)
RoundDiv(a, b) == (2 * a + b) \div (2 * b)

\* floor(Math.sqrt(n)), by Newton's iteration from a start x >= sqrt(n)
RECURSIVE SqrtIter(_, _)
SqrtIter(n, x) ==
  LET y == (x + n \div x) \div 2
  IN IF y >= x THEN x ELSE SqrtIter(n, y)

Sqrt(n) == IF n = 0 THEN 0 ELSE SqrtIter(n, Min(n, 46340))

(***************************************************************************)
(* Units                                                                   *)
(***************************************************************************)
INDUSTRIAL_BUFFER_M == 300
GREEN_BUFFER_M == 150
TRAFFIC_RADIUS == 400
DEG_TO_M == 111320

\* one score point; 1/Unit resolves a tenth times a metre of the 300 m buffer
Unit == 100 * INDUSTRIAL_BUFFER_M
Tenth == Unit \div 10

\* Math.round(x * 10) / 10 of a value in 1/Unit
Round1(x) == RoundDiv(x, Tenth) * Tenth

(***************************************************************************)
(* Score bands                                                             *)
(***************************************************************************)
BANDS ==
  << [max |-> 2 * Unit,        band |-> "excellent", label |-> "Excellent", color |-> "#4ecdc4"],
     [max |-> (7 * Unit) \div 2, band |-> "good",    label |-> "Good",      color |-> "#a8e6a3"],
     [max |-> 5 * Unit,        band |-> "moderate",  label |-> "Fair",      color |-> "#f7d794"],
     [max |-> 7 * Unit,        band |-> "poor",      label |-> "Poor",      color |-> "#f8a978"],
     [max |-> 10 * Unit,       band |-> "hazardous", label |-> "Avoid",     color |-> "#fc5c65"] >>

\* BANDS.find(b => score <= b.max) ?? BANDS[BANDS.length - 1]
getBandMut(score) ==
  IF \E i \in 1..Len(BANDS) : score < BANDS[i].max
  THEN BANDS[CHOOSE i \in 1..Len(BANDS) :
               /\ score < BANDS[i].max
               /\ \A j \in 1..(i - 1) : ~(score < BANDS[j].max)]
  ELSE BANDS[Len(BANDS)]
getBand(score) ==
  IF \E i \in 1..Len(BANDS) : score <= BANDS[i].max
  THEN BANDS[CHOOSE i \in 1..Len(BANDS) :
               /\ score <= BANDS[i].max
               /\ \A j \in 1..(i - 1) : ~(score <= BANDS[j].max)]
  ELSE BANDS[Len(BANDS)]

(***************************************************************************)
(* Weather and time modifiers (values in 1/Unit; pm25 and wind speed in    *)
(* whole ug/m3 and km/h)                                                   *)
(***************************************************************************)
pm25ModifierMut(pm25) ==
  IF pm25 <= 12 THEN 0
  ELSE IF pm25 <= 25 THEN Unit \div 2
  ELSE IF pm25 <= 37 THEN 2 * Unit
  ELSE IF pm25 <= 55 THEN Unit
  ELSE IF pm25 <= 75 THEN 3 * Unit
  ELSE 4 * Unit
pm25Modifier(pm25) ==
  IF pm25 <= 12 THEN 0
  ELSE IF pm25 <= 25 THEN Unit \div 2
  ELSE IF pm25 <= 37 THEN Unit
  ELSE IF pm25 <= 55 THEN 2 * Unit
  ELSE IF pm25 <= 75 THEN 3 * Unit
  ELSE 4 * Unit

windModifierMut(speedKmh) ==
  IF speedKmh >= 20 THEN -Unit
  ELSE IF speedKmh >= 12 THEN -(Unit \div 2)
  ELSE IF speedKmh >= 6 THEN 0
  ELSE IF speedKmh >= 2 THEN Unit \div 2
  ELSE (3 * Unit) \div 10
windModifier(speedKmh) ==
  IF speedKmh >= 20 THEN -Unit
  ELSE IF speedKmh >= 12 THEN -(Unit \div 2)
  ELSE IF speedKmh >= 6 THEN 0
  ELSE IF speedKmh >= 2 THEN (3 * Unit) \div 10
  ELSE Unit \div 2

timeModifier(hour) ==
  IF hour >= 7 /\ hour <= 9 THEN (3 * Unit) \div 2
  ELSE IF hour >= 17 /\ hour <= 19 THEN (3 * Unit) \div 2
  ELSE IF hour >= 6 /\ hour <= 10 THEN (8 * Unit) \div 10
  ELSE IF hour >= 16 /\ hour <= 20 THEN (8 * Unit) \div 10
  ELSE IF hour >= 0 /\ hour <= 5 THEN -(Unit \div 2)
  ELSE (3 * Unit) \div 10

rainModifier(isRaining, intensity) ==
  IF ~isRaining THEN 0
  ELSE IF intensity = "Heavy" THEN -(2 * Unit)
  ELSE IF intensity = "Moderate" THEN -((3 * Unit) \div 2)
  ELSE IF intensity = "Light" THEN -Unit
  ELSE -(Unit \div 2)

(***************************************************************************)
(* Traffic / exhaust model                                                 *)
(***************************************************************************)
\* road names are sequences of one-character strings
Lower == << "a", "b", "c", "d", "e", "f", "g", "h", "i", "j", "k", "l", "m",
            "n", "o", "p", "q", "r", "s", "t", "u", "v", "w", "x", "y", "z" >>
Upper == << "A", "B", "C", "D", "E", "F", "G", "H", "I", "J", "K", "L", "M",
            "N", "O", "P", "Q", "R", "S", "T", "U", "V", "W", "X", "Y", "Z" >>

\* String.prototype.toUpperCase
toUpperCase(name) ==
  [k \in 1..Len(name) |->
     IF \E i \in 1..Len(Lower) : Lower[i] = name[k]
     THEN Upper[CHOOSE i \in 1..Len(Lower) : Lower[i] = name[k]]
     ELSE name[k]]

\* String.prototype.includes
includes(s, e) ==
  \E k \in 0..(Len(s) - Len(e)) : \A i \in 1..Len(e) : s[k + i] = e[i]

EXPRESSWAYS ==
  << <<"A", "Y", "E">>, <<"P", "I", "E">>, <<"C", "T", "E">>, <<"E", "C", "P">>,
     <<"K", "P", "E">>, <<"S", "L", "E">>, <<"T", "P", "E">>, <<"B", "K", "E">>,
     <<"M", "C", "E">>, <<"K", "J", "E">> >>

\* every name without an expressway in it is an arterial road
inferFrcFromRoadNameMut(name) ==
  LET upper == toUpperCase(name)
  IN IF \E i \in 1..Len(EXPRESSWAYS) : includes(upper, EXPRESSWAYS[i]) THEN 0
     ELSE IF \/ includes(upper, <<"E", "X", "P", "R", "E", "S", "S", "W", "A", "Y">>)
             \/ includes(upper, <<"H", "I", "G", "H", "W", "A", "Y">>) THEN 0
     ELSE 2

\* if (!name) return 3, then the expressway codes and names
inferFrcFromRoadName(name) ==
  IF Len(name) = 0 THEN 3
  ELSE LET upper == toUpperCase(name)
       IN IF \E i \in 1..Len(EXPRESSWAYS) : includes(upper, EXPRESSWAYS[i]) THEN 0
          ELSE IF \/ includes(upper, <<"E", "X", "P", "R", "E", "S", "S", "W", "A", "Y">>)
                  \/ includes(upper, <<"H", "I", "G", "H", "W", "A", "Y">>) THEN 0
          ELSE 2

\* in hundredths
roadVolumeBaseline(frc) ==
  IF frc <= 1 THEN 100
  ELSE IF frc <= 2 THEN 70
  ELSE IF frc <= 3 THEN 50
  ELSE IF frc <= 4 THEN 25
  ELSE IF frc <= 5 THEN 12
  ELSE 5

\* congestionRatio in thousandths, result in tenths
congestionEmissionMultiplier(congestionRatio) ==
  IF congestionRatio < 250 THEN 30
  ELSE IF congestionRatio < 400 THEN 25
  ELSE IF congestionRatio < 600 THEN 18
  ELSE IF congestionRatio < 800 THEN 13
  ELSE IF congestionRatio < 950 THEN 11
  ELSE 10

(***************************************************************************)
(* Planar geometry.  Offsets are whole metres.  An offset of more than     *)
(* SatDeg microdegrees (about 20 km) saturates: every caller only compares *)
(* the distance with a radius of at most 400 m, and 32-bit products of     *)
(* larger offsets would overflow.                                          *)
(***************************************************************************)
SatDeg == 18 * 10000
SatM == 3 * 10000

\* Math.cos(lat * Math.PI / 180) in 1/10000, by 1 - x^2/2 (|lat| < 5 deg);
\* (PI/180)^2 / 2 = 1 / 6565.6 per square degree
cosOf(lat) ==
  LET m == lat \div 1000      \* millidegrees
  IN 10000 - (m * m) \div 656560

\* d * DEG_TO_M for an offset d in microdegrees, in metres
toM(d) ==
  LET c == IF d > SatDeg THEN SatDeg ELSE IF d < -SatDeg THEN -SatDeg ELSE d
  IN DivNearest(c * (DEG_TO_M \div 10), 100000)

\* d * DEG_TO_M * cosLat
toMcos(d, cosLat) == DivNearest(toM(d) * cosLat, 10000)

\* Math.sqrt(x * x + y * y) with x, y in metres
hyp(x, y) ==
  LET a == Min(Abs(x), SatM)
      b == Min(Abs(y), SatM)
  IN IF a + b = 0 THEN 0 ELSE SqrtIter(a * a + b * b, a + b)

(* For 0 < t < 1 the code's |e - t d| with t = (e.d)/|d|^2 is |e x d| / |d|. *)
pointToSegmentDist(px, py, ax, ay, bx, by, cosLat) ==
  LET dx == toMcos(bx - ax, cosLat)
      dy == toM(by - ay)
      lenSq == dx * dx + dy * dy
      ex == toMcos(px - ax, cosLat)
      ey == toM(py - ay)
      dot == ex * dx + ey * dy
  IN IF lenSq = 0 THEN hyp(ex, ey)
     ELSE IF dot <= 0 THEN hyp(ex, ey)                      \* t = 0
     ELSE IF dot >= lenSq THEN hyp(ex - dx, ey - dy)        \* t = 1
     ELSE Abs(ex * dy - ey * dx) \div Sqrt(lenSq)

(***************************************************************************)
(* IEEE doubles.  rateRoute sums and weighs one-decimal numbers, and the   *)
(* double it rounds to a percentage can lie on either side of a half, so   *)
(* its arithmetic is modelled bit for bit: a double is a sign, a 53-bit    *)
(* mantissa and a binary exponent, every operation forms the exact result  *)
(* and rounds it to the nearest double, ties to the even mantissa.  A      *)
(* mantissa is a natural number written in limbs of 14 bits, lowest first. *)
(***************************************************************************)
Limb == 2 ^ 14
MantissaBits == 52 + 1

RECURSIVE bigNorm(_)
bigNorm(a) ==
  IF Len(a) > 0 /\ a[Len(a)] = 0 THEN bigNorm(SubSeq(a, 1, Len(a) - 1)) ELSE a

limbAt(a, i) == IF i <= Len(a) THEN a[i] ELSE 0

RECURSIVE addFrom(_, _, _, _)
addFrom(a, b, i, carry) ==
  IF i > Len(a) /\ i > Len(b)
  THEN IF carry = 0 THEN << >> ELSE << carry >>
  ELSE << (limbAt(a, i) + limbAt(b, i) + carry) % Limb >>
         \o addFrom(a, b, i + 1, (limbAt(a, i) + limbAt(b, i) + carry) \div Limb)

bigAdd(a, b) == addFrom(a, b, 1, 0)

\* a - b for a >= b
RECURSIVE subFrom(_, _, _, _)
subFrom(a, b, i, borrow) ==
  IF i > Len(a) THEN << >>
  ELSE << (a[i] - limbAt(b, i) - borrow) % Limb >>
         \o subFrom(a, b, i + 1, IF a[i] - limbAt(b, i) - borrow < 0 THEN 1 ELSE 0)

bigSub(a, b) == bigNorm(subFrom(a, b, 1, 0))

\* -1, 0 or 1 as a is below, equal to or above b; both without leading zero limbs
RECURSIVE cmpFrom(_, _, _)
cmpFrom(a, b, i) ==
  IF i = 0 THEN 0
  ELSE IF a[i] < b[i] THEN -1
  ELSE IF a[i] > b[i] THEN 1
  ELSE cmpFrom(a, b, i - 1)

bigCmp(a, b) ==
  IF Len(a) < Len(b) THEN -1
  ELSE IF Len(a) > Len(b) THEN 1
  ELSE cmpFrom(a, b, Len(a))

\* a * k for 0 <= k <= 2^16
RECURSIVE mulSmallFrom(_, _, _, _)
mulSmallFrom(a, k, i, carry) ==
  IF i > Len(a)
  THEN IF carry = 0 THEN << >> ELSE << carry % Limb >> \o mulSmallFrom(a, k, i, carry \div Limb)
  ELSE << (a[i] * k + carry) % Limb >> \o mulSmallFrom(a, k, i + 1, (a[i] * k + carry) \div Limb)

bigMulSmall(a, k) == IF k = 0 THEN << >> ELSE mulSmallFrom(a, k, 1, 0)

RECURSIVE mulFrom(_, _, _)
mulFrom(a, b, i) ==
  IF i > Len(a) THEN << >>
  ELSE bigAdd(bigMulSmall(b, a[i]), << 0 >> \o mulFrom(a, b, i + 1))

bigMul(a, b) == bigNorm(mulFrom(a, b, 1))

\* the quotient and the remainder of a by k, 0 < k <= 2^16, limb by limb from the
\* highest
RECURSIVE quotFrom(_, _, _, _)
quotFrom(a, k, i, r) ==
  IF i = 0 THEN << >>
  ELSE quotFrom(a, k, i - 1, (r * Limb + a[i]) % k) \o << (r * Limb + a[i]) \div k >>

RECURSIVE remFrom(_, _, _, _)
remFrom(a, k, i, r) ==
  IF i = 0 THEN r ELSE remFrom(a, k, i - 1, (r * Limb + a[i]) % k)

bigDivSmall(a, k) == bigNorm(quotFrom(a, k, Len(a), 0))
bigModSmall(a, k) == remFrom(a, k, Len(a), 0)

\* the number of bits of a limb and of a number without leading zero limbs
RECURSIVE bitsOf(_)
bitsOf(x) == IF x = 0 THEN 0 ELSE 1 + bitsOf(x \div 2)

bitLen(a) == IF Len(a) = 0 THEN 0 ELSE 14 * (Len(a) - 1) + bitsOf(a[Len(a)])

\* a * 2^n and floor(a / 2^n)
shl(a, n) ==
  IF Len(a) = 0 THEN a
  ELSE [i \in 1..(n \div 14) |-> 0] \o bigMulSmall(a, 2 ^ (n % 14))

shr(a, n) ==
  IF n \div 14 >= Len(a) THEN << >>
  ELSE bigDivSmall(SubSeq(a, n \div 14 + 1, Len(a)), 2 ^ (n % 14))

bigOf(k) == bigNorm(<< k % Limb, (k \div Limb) % Limb, k \div (Limb * Limb) >>)

RECURSIVE intFrom(_, _)
intFrom(a, i) == IF i > Len(a) THEN 0 ELSE a[i] + Limb * intFrom(a, i + 1)

intOf(a) == intFrom(a, 1)

\* the double of value m * 2^e; zero has the empty mantissa
fZero == [neg |-> FALSE, m |-> << >>, e |-> 0]

isZero(x) == Len(x.m) = 0

\* q has 53 bits and stands for q * 2^e; rounding up may give 2^53
carried(neg, q, e) ==
  IF bitLen(q) > MantissaBits THEN [neg |-> neg, m |-> shr(q, 1), e |-> e + 1]
  ELSE [neg |-> neg, m |-> q, e |-> e]

\* c compares the bits dropped below q with a half of q's last place
roundedUp(q, c, sticky) == c > 0 \/ (c = 0 /\ (sticky \/ q[1] % 2 = 1))

nearest(neg, q, e, c, sticky) ==
  IF roundedUp(q, c, sticky) THEN carried(neg, bigAdd(q, << 1 >>), e) ELSE carried(neg, q, e)

\* (a test of the kind Len(q) >= 0 or known(x) is always true: it has the value
\* computed before it is handed on)
dropped(neg, p, e, s, q, sticky) ==
  IF Len(q) >= 0
  THEN nearest(neg, q, e + s, bigCmp(bigSub(p, shl(q, s)), shl(<< 1 >>, s - 1)), sticky)
  ELSE fZero

\* the double nearest to p * 2^e (+ a positive amount below one unit of p if sticky);
\* ties go to the even mantissa
roundBits(neg, p, e, sticky, len) ==
  IF len = 0 THEN fZero
  ELSE IF len <= MantissaBits
  THEN [neg |-> neg, m |-> shl(p, MantissaBits - len), e |-> e - (MantissaBits - len)]
  ELSE dropped(neg, p, e, len - MantissaBits, shr(p, len - MantissaBits), sticky)

roundBig(neg, p, e, sticky) ==
  IF Len(p) >= 0 THEN roundBits(neg, p, e, sticky, bitLen(p)) ELSE fZero

known(x) == Len(x.m) >= 0

\* the double of an integer of magnitude below 2^31
fInt(k) == roundBig(k < 0, bigOf(Abs(k)), 0, FALSE)

fNeg(x) == IF isZero(x) THEN x ELSE [neg |-> ~x.neg, m |-> x.m, e |-> x.e]

\* a + b for doubles of the same sign (magnitudes add) or of opposite signs
sameSign(neg, pa, pb, e) == roundBig(neg, bigAdd(pa, pb), e, FALSE)

oppositeSign(aneg, pa, pb, e, c) ==
  IF c = 0 THEN fZero
  ELSE IF c > 0 THEN roundBig(aneg, bigSub(pa, pb), e, FALSE)
  ELSE roundBig(~aneg, bigSub(pb, pa), e, FALSE)

aligned(a, b, pa, pb, e) ==
  IF Len(pa) < 0 \/ Len(pb) < 0 THEN fZero
  ELSE IF a.neg = b.neg THEN sameSign(a.neg, pa, pb, e)
  ELSE oppositeSign(a.neg, pa, pb, e, bigCmp(pa, pb))

alignedAt(a, b, e) == aligned(a, b, shl(a.m, a.e - e), shl(b.m, b.e - e), e)

fAdd(a, b) ==
  IF ~known(a) \/ ~known(b) THEN fZero
  ELSE IF isZero(a) THEN b
  ELSE IF isZero(b) THEN a
  ELSE alignedAt(a, b, Min(a.e, b.e))

fSub(a, b) == IF known(a) /\ known(b) THEN fAdd(a, fNeg(b)) ELSE fZero

fMul(a, b) ==
  IF ~known(a) \/ ~known(b) THEN fZero
  ELSE IF isZero(a) \/ isZero(b) THEN fZero
  ELSE roundBig(a.neg # b.neg, bigMul(a.m, b.m), a.e + b.e, FALSE)

\* a / k for an integer 0 < k <= 2^14: 28 more bits of quotient than the mantissa needs
quotient(neg, p, k, e) ==
  IF Len(p) >= 0 THEN roundBig(neg, bigDivSmall(p, k), e, bigModSmall(p, k) # 0) ELSE fZero

fDivInt(a, k) ==
  IF isZero(a) THEN fZero ELSE quotient(a.neg, shl(a.m, 28), k, a.e - 28)

\* -1, 0 or 1 as a is below, equal to or above b
fCmpTo(d) == IF isZero(d) THEN 0 ELSE IF d.neg THEN -1 ELSE 1
fCmp(a, b) == IF known(a) /\ known(b) THEN fCmpTo(fSub(a, b)) ELSE 0

fMin(a, b) == IF known(a) /\ known(b) /\ fCmp(a, b) < 0 THEN a ELSE b
fMax(a, b) == IF known(a) /\ known(b) /\ fCmp(a, b) > 0 THEN a ELSE b

\* Math.round of a double as an integer: floor(x + 1/2), exactly
roundedDown(m, s) == intOf(shr(bigAdd(m, shl(<< 1 >>, s - 1)), s))

roundedNeg(m, s, half) ==
  IF bigCmp(m, half) <= 0 THEN 0
  ELSE -intOf(shr(bigAdd(bigSub(m, half), bigSub(shl(<< 1 >>, s), << 1 >>)), s))

fRound(x) ==
  IF isZero(x) THEN 0
  ELSE IF x.e >= 0 THEN (IF x.neg THEN -1 ELSE 1) * intOf(shl(x.m, x.e))
  ELSE IF x.neg THEN roundedNeg(x.m, -x.e, shl(<< 1 >>, -x.e - 1))
  ELSE roundedDown(x.m, -x.e)

\* Math.sqrt.  The integer square root of a number n of 8 limbs, 111 or 112 bits, is
\* found limb by limb from the highest, as in the longhand method: s is the root of the
\* pairs of limbs taken so far and r what they leave, t == r * Limb^2 + the next pair,
\* and the next limb d of the root is the largest with (2 * s * Limb + d) * d <= t.
pairOf(n, k) == SubSeq(n, 2 * (4 - k) + 1, 2 * (4 - k) + 2)

\* d is not below the limb sought; twice is 2 * s
RECURSIVE limbFrom(_, _, _)
limbFrom(t, twice, d) ==
  IF bigCmp(bigMulSmall(<< d >> \o twice, d), t) > 0 THEN limbFrom(t, twice, d - 1) ELSE d

\* t / (2 * s * Limb) with the divisor cut to its highest limbs is not below the limb;
\* k is the number of limbs of s
estimate(q) == IF Len(q) > 1 THEN Limb - 1 ELSE IF Len(q) = 1 THEN q[1] ELSE 0

limbOf(t, twice, k) ==
  limbFrom(t, twice,
           estimate(bigDivSmall(SubSeq(t, k + 1, Len(t)), intOf(SubSeq(twice, k, Len(twice))))))

RECURSIVE rootFrom(_, _, _, _)
rootWith(n, s, t, twice, d, k) ==
  rootFrom(n, << d >> \o s, bigSub(t, bigMulSmall(<< d >> \o twice, d)), k + 2)

rootAt(n, s, t, twice, k) == rootWith(n, s, t, twice, limbOf(t, twice, k), k)

rootFrom(n, s, r, k) ==
  IF Len(s) < 0 \/ Len(r) < 0 THEN [s |-> s, r |-> r]
  ELSE IF k > 4 THEN [s |-> s, r |-> r]
  ELSE rootAt(n, s, bigNorm(pairOf(n, k) \o r), bigMulSmall(s, 2), k - 1)

firstLimb(n, top, s) == rootFrom(n, << s >>, bigOf(top - s * s), 2)

bigRoot(n) == firstLimb(n, intOf(pairOf(n, 1)), Sqrt(intOf(pairOf(n, 1))))

rooted(root, e) == roundBig(FALSE, root.s, e, Len(root.r) > 0)

fSqrt(x) ==
  IF isZero(x) THEN fZero
  ELSE IF x.e % 2 = 0 THEN rooted(bigRoot(shl(x.m, 58)), (x.e - 58) \div 2)
  ELSE rooted(bigRoot(shl(x.m, 59)), (x.e - 59) \div 2)

\* exhaust = volume * emission * distanceFactor, as a numerator over ExhaustDen
ExhaustDen == 100 * 10 * TRAFFIC_RADIUS

\* band.frc ?? inferFrcFromRoadName(band.roadName)
frcOf(band) ==
  IF IsSome(band.frc) THEN Get(band.frc) ELSE inferFrcFromRoadName(band.roadName)

\* the congestion ratio of a band, given or inferred from its speed band
congestionOf(band, frc) ==
  IF IsSome(band.congestionRatio) THEN Get(band.congestionRatio)
  ELSE IF frc <= 1 THEN Min(1000, (band.speedBand * 1000) \div 8)
  ELSE IF band.speedBand <= 2 THEN 400
  ELSE IF band.speedBand <= 4 THEN 700
  ELSE 950

\* !band.startLat || !band.startLng
skipped(band) == band.startLat = 0 \/ band.startLng = 0

\* the distance to the whole line through the segment, not to the segment
bandDistMut(lat, lng, band, cosLat) ==
  IF band.endLat = 0 \/ band.endLng = 0
  THEN pointToSegmentDist(lat, lng, band.startLat, band.startLng,
                          band.endLat, band.endLng, cosLat)
  ELSE pointToSegmentDist(lat, lng,
                          11 * band.startLat - 10 * band.endLat, 11 * band.startLng - 10 * band.endLng,
                          11 * band.endLat - 10 * band.startLat, 11 * band.endLng - 10 * band.startLng,
                          cosLat)
bandDist(lat, lng, band, cosLat) ==
  pointToSegmentDist(lat, lng, band.startLat, band.startLng,
                     band.endLat, band.endLng, cosLat)

exhaustOf(band, dist) ==
  LET distanceFactor == TRAFFIC_RADIUS - dist      \* over TRAFFIC_RADIUS
      frc == frcOf(band)
      congestion == congestionOf(band, frc)
      volume == roadVolumeBaseline(frc)
      emission == congestionEmissionMultiplier(congestion)
  IN volume * emission * distanceFactor

\* if (exhaust > worstExhaust) worstExhaust = exhaust
worseMut(exhaust, worstExhaust) == worstExhaust + exhaust
worse(exhaust, worstExhaust) ==
  IF exhaust > worstExhaust THEN exhaust ELSE worstExhaust

RECURSIVE worstExhaustFrom(_, _, _, _, _, _)
worstExhaustFrom(lat, lng, speedBands, cosLat, i, worstExhaust) ==
  IF i > Len(speedBands) THEN worstExhaust
  ELSE LET band == speedBands[i]
       IN IF skipped(band)
          THEN worstExhaustFrom(lat, lng, speedBands, cosLat, i + 1, worstExhaust)
          ELSE LET dist == bandDist(lat, lng, band, cosLat)
               IN IF dist >= TRAFFIC_RADIUS
                  THEN worstExhaustFrom(lat, lng, speedBands, cosLat, i + 1, worstExhaust)
                  ELSE worstExhaustFrom(lat, lng, speedBands, cosLat, i + 1,
                                        worse(exhaustOf(band, dist), worstExhaust))

\* Math.min(4.0, worstExhaust * 3.5), as a numerator over 10 * ExhaustDen
penaltyMut(worstExhaust) == 35 * worstExhaust
penalty(worstExhaust) == Min(40 * ExhaustDen, 35 * worstExhaust)

trafficModifier(lat, lng, speedBands) ==
  IF Len(speedBands) = 0 THEN 0
  ELSE LET cosLat == cosOf(lat)
           worstExhaust == worstExhaustFrom(lat, lng, speedBands, cosLat, 1, 0)
       IN RoundDiv(penalty(worstExhaust), ExhaustDen) * Tenth

(***************************************************************************)
(* Zones.  A ring is a sequence of pairs; ring[i][1] and ring[i][2] are    *)
(* the code's ring[i][0] and ring[i][1].  The green rings are written      *)
(* [lat, lng] and the industrial rings [lng, lat], as in the source.       *)
(***************************************************************************)
GREEN_ZONES ==
  << \* East Coast Park
     << <<1296000, 103868000>>, <<1293000, 103880000>>, <<1293000, 103900000>>,
        <<1295000, 103920000>>, <<1297000, 103940000>>, <<1299000, 103950000>>,
        <<1302000, 103955000>>, <<1305000, 103950000>>, <<1304000, 103940000>>,
        <<1303000, 103920000>>, <<1301000, 103900000>>, <<1300000, 103880000>>,
        <<1300000, 103868000>> >>,
     \* Gardens by the Bay
     << <<1278000, 103861000>>, <<1278000, 103870000>>, <<1284000, 103870000>>,
        <<1284000, 103861000>> >>,
     \* Marina Bay Promenade
     << <<1284000, 103852000>>, <<1284000, 103861000>>, <<1290000, 103861000>>,
        <<1290000, 103852000>> >>,
     \* Botanic Gardens
     << <<1310000, 103813000>>, <<1310000, 103820000>>, <<1322000, 103820000>>,
        <<1322000, 103813000>> >>,
     \* MacRitchie Reservoir
     << <<1335000, 103820000>>, <<1335000, 103840000>>, <<1348000, 103840000>>,
        <<1355000, 103835000>>, <<1355000, 103825000>>, <<1348000, 103820000>> >>,
     \* Bedok Reservoir Park
     << <<1336000, 103930000>>, <<1336000, 103940000>>, <<1342000, 103940000>>,
        <<1342000, 103930000>> >>,
     \* Pandan Reservoir Park
     << <<1305000, 103735000>>, <<1305000, 103748000>>, <<1315000, 103748000>>,
        <<1315000, 103735000>> >>,
     \* Jurong Lake Gardens
     << <<1330000, 103720000>>, <<1330000, 103740000>>, <<1340000, 103740000>>,
        <<1345000, 103735000>>, <<1345000, 103725000>>, <<1340000, 103720000>> >>,
     \* West Coast Park
     << <<1280000, 103758000>>, <<1280000, 103770000>>, <<1287000, 103770000>>,
        <<1287000, 103758000>> >>,
     \* Pasir Ris Park
     << <<1373000, 103942000>>, <<1373000, 103960000>>, <<1382000, 103960000>>,
        <<1382000, 103942000>> >>,
     \* Bishan-AMK Park
     << <<1356000, 103843000>>, <<1356000, 103852000>>, <<1365000, 103852000>>,
        <<1365000, 103843000>> >>,
     \* Fort Canning Park
     << <<1293000, 103843000>>, <<1293000, 103849000>>, <<1298000, 103849000>>,
        <<1298000, 103843000>> >>,
     \* Labrador Nature Reserve
     << <<1264000, 103800000>>, <<1264000, 103808000>>, <<1270000, 103808000>>,
        <<1270000, 103800000>> >>,
     \* Kent Ridge Park
     << <<1282000, 103787000>>, <<1282000, 103796000>>, <<1290000, 103796000>>,
        <<1290000, 103787000>> >>,
     \* Seletar Reservoir
     << <<1393000, 103815000>>, <<1393000, 103830000>>, <<1402000, 103830000>>,
        <<1402000, 103815000>> >>,
     \* Punggol Waterway Park
     << <<1404000, 103898000>>, <<1404000, 103914000>>, <<1412000, 103914000>>,
        <<1412000, 103898000>> >>,
     \* Coney Island
     << <<1411000, 103915000>>, <<1411000, 103930000>>, <<1418000, 103930000>>,
        <<1418000, 103915000>> >>,
     \* Tampines Eco Green
     << <<1355000, 103952000>>, <<1355000, 103960000>>, <<1362000, 103960000>>,
        <<1362000, 103952000>> >>,
     \* Southern Ridges
     << <<1270000, 103800000>>, <<1275000, 103818000>>, <<1280000, 103818000>>,
        <<1275000, 103800000>> >>,
     \* Bukit Timah Nature Reserve
     << <<1348000, 103772000>>, <<1348000, 103782000>>, <<1358000, 103782000>>,
        <<1358000, 103772000>> >>
  >>

INDUSTRIAL_ZONES ==
  << \* Jurong Industrial Estate
     << <<103690000, 1308000>>, <<103720000, 1306000>>, <<103730000, 1312000>>,
        <<103730000, 1335000>>, <<103720000, 1340000>>, <<103705000, 1342000>>,
        <<103690000, 1335000>> >>,
     \* Tuas Industrial
     << <<103618000, 1305000>>, <<103655000, 1303000>>, <<103660000, 1318000>>,
        <<103655000, 1338000>>, <<103635000, 1342000>>, <<103618000, 1330000>> >>,
     \* Tuas South
     << <<103610000, 1280000>>, <<103645000, 1278000>>, <<103650000, 1292000>>,
        <<103640000, 1302000>>, <<103615000, 1300000>> >>,
     \* Pioneer / Gul
     << <<103680000, 1300000>>, <<103700000, 1298000>>, <<103705000, 1310000>>,
        <<103700000, 1318000>>, <<103685000, 1318000>>, <<103678000, 1310000>> >>,
     \* Pandan Loop / Penjuru
     << <<103725000, 1290000>>, <<103750000, 1288000>>, <<103755000, 1298000>>,
        <<103752000, 1310000>>, <<103740000, 1315000>>, <<103725000, 1310000>> >>,
     \* Jalan Buroh Industrial
     << <<103720000, 1285000>>, <<103740000, 1283000>>, <<103742000, 1292000>>,
        <<103735000, 1295000>>, <<103720000, 1293000>> >>,
     \* Bukit Batok Industrial
     << <<103740000, 1340000>>, <<103760000, 1338000>>, <<103765000, 1348000>>,
        <<103758000, 1355000>>, <<103742000, 1352000>> >>,
     \* Woodlands Industrial
     << <<103768000, 1430000>>, <<103790000, 1428000>>, <<103795000, 1440000>>,
        <<103788000, 1448000>>, <<103770000, 1445000>> >>,
     \* Senoko Industrial
     << <<103792000, 1443000>>, <<103815000, 1440000>>, <<103820000, 1452000>>,
        <<103812000, 1458000>>, <<103795000, 1455000>> >>,
     \* Kranji Industrial
     << <<103740000, 1418000>>, <<103758000, 1416000>>, <<103762000, 1425000>>,
        <<103755000, 1432000>>, <<103742000, 1430000>> >>,
     \* Mandai Industrial
     << <<103760000, 1398000>>, <<103778000, 1396000>>, <<103782000, 1405000>>,
        <<103775000, 1412000>>, <<103762000, 1408000>> >>,
     \* Seletar Aerospace
     << <<103858000, 1408000>>, <<103878000, 1406000>>, <<103882000, 1416000>>,
        <<103875000, 1422000>>, <<103860000, 1418000>> >>,
     \* Kallang/Kolam Ayer Industrial
     << <<103865000, 1315000>>, <<103882000, 1313000>>, <<103886000, 1326000>>,
        <<103878000, 1332000>>, <<103866000, 1328000>> >>,
     \* Tai Seng Industrial
     << <<103880000, 1338000>>, <<103898000, 1336000>>, <<103902000, 1346000>>,
        <<103895000, 1352000>>, <<103882000, 1348000>> >>,
     \* Paya Lebar Industrial
     << <<103883000, 1338000>>, <<103898000, 1336000>>, <<103902000, 1348000>>,
        <<103896000, 1354000>>, <<103884000, 1350000>> >>,
     \* Defu Industrial
     << <<103870000, 1358000>>, <<103892000, 1356000>>, <<103896000, 1366000>>,
        <<103888000, 1372000>>, <<103872000, 1368000>> >>,
     \* Ubi / Eunos Industrial
     << <<103892000, 1318000>>, <<103910000, 1316000>>, <<103914000, 1328000>>,
        <<103908000, 1334000>>, <<103894000, 1330000>> >>,
     \* Changi Business Park
     << <<103958000, 1328000>>, <<103978000, 1326000>>, <<103982000, 1340000>>,
        <<103975000, 1345000>>, <<103960000, 1342000>> >>,
     \* Loyang Industrial
     << <<103960000, 1358000>>, <<103980000, 1356000>>, <<103984000, 1366000>>,
        <<103978000, 1372000>>, <<103962000, 1368000>> >>,
     \* Tanjong Kling Industrial
     << <<103725000, 1275000>>, <<103742000, 1273000>>, <<103748000, 1283000>>,
        <<103740000, 1290000>>, <<103726000, 1287000>> >>,
     \* Keppel / Tanjong Pagar Terminal
     << <<103832000, 1260000>>, <<103848000, 1258000>>, <<103852000, 1268000>>,
        <<103845000, 1274000>>, <<103834000, 1270000>> >>
  >>

Infinity == 2147483647

\* the index before i in the ring (j = i++ after starting at length - 1)
before(ring, i) == IF i = 1 THEN Len(ring) ELSE i - 1

\* lng < (xj - xi) * (lat - yi) / (yj - yi) + xi, for yi # yj and lat between
leftOfEdge(lat, lng, xi, yi, xj, yj) ==
  LET w == Abs(xj - xi)
      l == lng - xi
  IN IF l > w THEN FALSE
     ELSE IF l < -w THEN TRUE
     ELSE IF yj - yi > 0 THEN l * (yj - yi) < (xj - xi) * (lat - yi)
     ELSE l * (yj - yi) > (xj - xi) * (lat - yi)

edgeCrossed(lat, lng, ring, i) ==
  LET j == before(ring, i)
      xi == ring[i][1]
      yi == ring[i][2]
      xj == ring[j][1]
      yj == ring[j][2]
  IN /\ (yi > lat) # (yj > lat)
     /\ leftOfEdge(lat, lng, xi, yi, xj, yj)

\* inside is toggled once per crossed edge
pointInPolygon(lat, lng, ring) ==
  Cardinality({i \in 1..Len(ring) : edgeCrossed(lat, lng, ring, i)}) % 2 = 1

RECURSIVE minEdgeDist(_, _, _, _, _, _)
minEdgeDist(lat, lng, ring, cosLat, i, minDist) ==
  IF i > Len(ring) THEN minDist
  ELSE LET j == before(ring, i)
           d == pointToSegmentDist(lat, lng, ring[i][2], ring[i][1],
                                   ring[j][2], ring[j][1], cosLat)
       IN minEdgeDist(lat, lng, ring, cosLat, i + 1,
                      IF d < minDist THEN d ELSE minDist)

distToPolygonEdge(lat, lng, ring, cosLat) ==
  minEdgeDist(lat, lng, ring, cosLat, 1, Infinity)

RECURSIVE greenZoneFrom(_, _, _, _)
greenZoneFrom(lat, lng, cosLat, z) ==
  IF z > Len(GREEN_ZONES) THEN [inPark |-> FALSE, nearPark |-> FALSE]
  ELSE IF pointInPolygon(lat, lng, GREEN_ZONES[z])
       THEN [inPark |-> TRUE, nearPark |-> TRUE]
  ELSE IF distToPolygonEdge(lat, lng, GREEN_ZONES[z], cosLat) < GREEN_BUFFER_M
       THEN [inPark |-> FALSE, nearPark |-> TRUE]
  ELSE greenZoneFrom(lat, lng, cosLat, z + 1)

greenZoneCheck(lat, lng, cosLat) == greenZoneFrom(lat, lng, cosLat, 1)

\* the multiplier is a numerator over MultDen, the addition is in 1/Unit
MultDen == 10 * INDUSTRIAL_BUFFER_M

RECURSIVE industrialFrom(_, _, _, _)
industrialFrom(lat, lng, cosLat, z) ==
  IF z > Len(INDUSTRIAL_ZONES) THEN [addition |-> 0, multiplier |-> MultDen]
  ELSE IF pointInPolygon(lat, lng, INDUSTRIAL_ZONES[z])
       THEN [addition |-> 12 * Tenth, multiplier |-> 18 * (MultDen \div 10)]
  ELSE LET dist == distToPolygonEdge(lat, lng, INDUSTRIAL_ZONES[z], cosLat)
       IN IF dist < INDUSTRIAL_BUFFER_M
          THEN LET factor == INDUSTRIAL_BUFFER_M - dist   \* over INDUSTRIAL_BUFFER_M
               IN [addition |-> (8 * Tenth * factor) \div INDUSTRIAL_BUFFER_M,
                   multiplier |-> MultDen + (6 * (MultDen \div 10) * factor) \div INDUSTRIAL_BUFFER_M]
          ELSE industrialFrom(lat, lng, cosLat, z + 1)

\* the zones are tried from the last to the first
RECURSIVE industrialFromMut(_, _, _, _)
industrialFromMut(lat, lng, cosLat, z) ==
  IF z < 1 THEN [addition |-> 0, multiplier |-> MultDen]
  ELSE IF pointInPolygon(lat, lng, INDUSTRIAL_ZONES[z])
       THEN [addition |-> 12 * Tenth, multiplier |-> 18 * (MultDen \div 10)]
  ELSE LET dist == distToPolygonEdge(lat, lng, INDUSTRIAL_ZONES[z], cosLat)
       IN IF dist < INDUSTRIAL_BUFFER_M
          THEN LET factor == INDUSTRIAL_BUFFER_M - dist
               IN [addition |-> (8 * Tenth * factor) \div INDUSTRIAL_BUFFER_M,
                   multiplier |-> MultDen + (6 * (MultDen \div 10) * factor) \div INDUSTRIAL_BUFFER_M]
          ELSE industrialFromMut(lat, lng, cosLat, z - 1)

industrialModifierMut(lat, lng, cosLat) ==
  industrialFromMut(lat, lng, cosLat, Len(INDUSTRIAL_ZONES))

industrialModifier(lat, lng, cosLat) == industrialFrom(lat, lng, cosLat, 1)

(***************************************************************************)
(* Grid lookup.  A grid is [cells |-> a sequence of [lat, lng, base]].     *)
(***************************************************************************)
\* the scan goes on to the last cell
RECURSIVE nearestFromMut(_, _, _, _, _, _)
nearestFromMut(lat, lng, cells, i, closest, minDist) ==
  IF i > Len(cells) THEN closest
  ELSE LET cell == cells[i]
           d == Abs(cell.lat - lat) + Abs(cell.lng - lng)
       IN IF d < minDist THEN nearestFromMut(lat, lng, cells, i + 1, Some(cell), d)
          ELSE nearestFromMut(lat, lng, cells, i + 1, closest, minDist)

RECURSIVE nearestFrom(_, _, _, _, _, _)
nearestFrom(lat, lng, cells, i, closest, minDist) ==
  IF i > Len(cells) THEN closest
  ELSE LET cell == cells[i]
           d == Abs(cell.lat - lat) + Abs(cell.lng - lng)
           c == IF d < minDist THEN Some(cell) ELSE closest
           m == IF d < minDist THEN d ELSE minDist
       IN IF d < 10 THEN c                       \* d < 0.00001: break
          ELSE nearestFrom(lat, lng, cells, i + 1, c, m)

\* grid is an optional grid; the result is an optional cell
findNearestCell(lat, lng, grid) ==
  IF ~IsSome(grid) \/ Len(Get(grid).cells) = 0 THEN None
  ELSE nearestFrom(lat, lng, Get(grid).cells, 1, None, Infinity)

(***************************************************************************)
(* Score a single point.  now is the hour new Date().getHours() returns.   *)
(***************************************************************************)
\* Math.max(1, Math.min(10, x))
clampScoreMut(x) == x
clampScore(x) == Max(Unit, Min(10 * Unit, x))

\* let staticBase = 3.0; if (grid) { cell = findNearestCell; if (cell) staticBase = cell.base }
gridBaseMut(lat, lng, grid) ==
  IF IsSome(grid)
  THEN LET cell == findNearestCell(lat, lng, grid)
       IN IF IsSome(cell) THEN Get(cell).base ELSE 25 * Tenth
  ELSE 25 * Tenth
gridBase(lat, lng, grid) ==
  IF IsSome(grid)
  THEN LET cell == findNearestCell(lat, lng, grid)
       IN IF IsSome(cell) THEN Get(cell).base ELSE 3 * Unit
  ELSE 3 * Unit

\* speedBands ? trafficModifier(lat, lng, speedBands) : 0
baseTrafMod(lat, lng, speedBands) ==
  IF IsSome(speedBands) THEN trafficModifier(lat, lng, Get(speedBands)) ELSE 0

\* hour ?? new Date().getHours()
currentHourOfMut(hour, now) == now
currentHourOf(hour, now) == IF IsSome(hour) THEN Get(hour) ELSE now

\* if (green.inPark) staticBase = Math.min(staticBase, 1.2)
\* else if (green.nearPark) staticBase = Math.min(staticBase, 2.0)
greenBase(staticBase, green) ==
  IF green.inPark THEN Min(staticBase, 12 * Tenth)
  ELSE IF green.nearPark THEN Min(staticBase, 20 * Tenth)
  ELSE staticBase

\* Math.min(4.5, baseTrafMod * indust.multiplier + indust.addition)
industrialTrafficMut(baseTrafficMod, indust) ==
  (baseTrafficMod * indust.multiplier) \div MultDen + indust.addition
industrialTraffic(baseTrafficMod, indust) ==
  Min(45 * Tenth, (baseTrafficMod * indust.multiplier) \div MultDen + indust.addition)

\* conditions ? pm25Modifier(conditions.pm25.value) : 0
pm25ModOf(conditions) ==
  IF IsSome(conditions) THEN pm25Modifier(Get(conditions).pm25) ELSE 0

\* conditions ? windModifier(conditions.wind.speed) : 0
windModOf(conditions) ==
  IF IsSome(conditions) THEN windModifier(Get(conditions).wind) ELSE 0

\* conditions ? rainModifier(conditions.rainfall.isRaining, conditions.rainfall.intensity) : 0
rainModOf(conditions) ==
  IF IsSome(conditions)
  THEN rainModifier(Get(conditions).isRaining, Get(conditions).intensity)
  ELSE 0

\* the reported tenths of the parts are summed
scoreResultMut(staticBase, pm25Mod, windMod, timeMod, rainMod, trafficMod, indust, green) ==
  LET raw == Round1(staticBase) + Round1(pm25Mod) + Round1(windMod) + Round1(timeMod)
               + Round1(rainMod) + Round1(trafficMod)
      score == clampScore(Round1(raw))
      band == getBand(score)
  IN [score |-> score, band |-> band.band, label |-> band.label, color |-> band.color,
      trafficMod |-> Round1(trafficMod),
      isIndustrial |-> indust.addition > 0,
      isGreenZone |-> green.inPark,
      isNearGreenZone |-> green.nearPark,
      breakdown |-> [staticBase |-> Round1(staticBase),
                     pm25Modifier |-> Round1(pm25Mod),
                     windModifier |-> Round1(windMod),
                     timeModifier |-> Round1(timeMod),
                     rainModifier |-> Round1(rainMod),
                     trafficModifier |-> Round1(trafficMod)],
      recommendation |-> ""]

\* the score of the sum of the parts, and the returned record
scoreResult(staticBase, pm25Mod, windMod, timeMod, rainMod, trafficMod, indust, green) ==
  LET raw == staticBase + pm25Mod + windMod + timeMod + rainMod + trafficMod
      score == clampScore(Round1(raw))
      band == getBand(score)
  IN [score |-> score, band |-> band.band, label |-> band.label, color |-> band.color,
      trafficMod |-> Round1(trafficMod),
      isIndustrial |-> indust.addition > 0,
      isGreenZone |-> green.inPark,
      isNearGreenZone |-> green.nearPark,
      breakdown |-> [staticBase |-> Round1(staticBase),
                     pm25Modifier |-> Round1(pm25Mod),
                     windModifier |-> Round1(windMod),
                     timeModifier |-> Round1(timeMod),
                     rainModifier |-> Round1(rainMod),
                     trafficModifier |-> Round1(trafficMod)],
      recommendation |-> ""]

zonesResult(staticBase, pm25Mod, windMod, timeMod, rainMod, baseTrafficMod, indust, green) ==
  scoreResult(greenBase(staticBase, green), pm25Mod, windMod, timeMod, rainMod,
              industrialTraffic(baseTrafficMod, indust), indust, green)

computeScore(lat, lng, conditions, grid, hour, speedBands, now) ==
  zonesResult(gridBase(lat, lng, grid),
              pm25ModOf(conditions),
              windModOf(conditions),
              timeModifier(currentHourOf(hour, now)),
              rainModOf(conditions),
              baseTrafMod(lat, lng, speedBands),
              industrialModifier(lat, lng, cosOf(lat)),
              greenZoneCheck(lat, lng, cosOf(lat)))

(***************************************************************************)
(* Score a route.  scoreRoutePoints passes no hour, so computeScore reads  *)
(* the clock for each sample: nows[i] is the hour read for sample i.       *)
(***************************************************************************)
\* every sample is reported at the start of the route
scoredPointMut(p, conditions, grid, speedBands, now) ==
  LET r == computeScore(p.lat, p.lng, conditions, grid, None, Some(speedBands), now)
  IN [lat |-> p.lat, lng |-> p.lng, distanceM |-> 0,
      score |-> r.score, color |-> r.color, band |-> r.band,
      trafficMod |-> Some(r.trafficMod),
      industrialZone |-> r.isIndustrial,
      greenZone |-> r.isGreenZone,
      nearGreenZone |-> r.isNearGreenZone]

scoredPoint(p, conditions, grid, speedBands, now) ==
  LET r == computeScore(p.lat, p.lng, conditions, grid, None, Some(speedBands), now)
  IN [lat |-> p.lat, lng |-> p.lng, distanceM |-> p.distanceM,
      score |-> r.score, color |-> r.color, band |-> r.band,
      trafficMod |-> Some(r.trafficMod),
      industrialZone |-> r.isIndustrial,
      greenZone |-> r.isGreenZone,
      nearGreenZone |-> r.isNearGreenZone]

scoreRoutePoints(interpolated, conditions, grid, speedBands, nows) ==
  [i \in 1..Len(interpolated) |->
     scoredPoint(interpolated[i], conditions, grid, speedBands, nows[i])]

(***************************************************************************)
(* Route rating.  The scores and traffic penalties of scored points are    *)
(* whole tenths; rateRoute computes with their doubles.                    *)
(***************************************************************************)
\* the double of k / 10 as the source writes it (0.6) or computes it
\* (Math.round(x * 10) / 10)
dec(k) == fDivInt(fInt(k), 10)

\* the double of a score or penalty held in units of 1/Unit
numberOf(x) == dec(x \div Tenth)

\* xs.reduce((a, b) => a + b, 0)
RECURSIVE sumOf(_, _)
sumOf(xs, i) == IF i = 0 THEN fZero ELSE fAdd(sumOf(xs, i - 1), xs[i])

\* Math.max(...xs) of a non-empty sequence
maxOf(xs) == CHOOSE m \in {xs[i] : i \in 1..Len(xs)} : \A i \in 1..Len(xs) : xs[i] <= m

\* xs.filter(pred).length
countOf(flags) == Cardinality({i \in 1..Len(flags) : flags[i]})

\* Math.round(Math.max(0, Math.min(100, x)))
pctClampedMut(x) == fRound(x)
pctClamped(x) == IF known(x) THEN fRound(fMax(fZero, fMin(fInt(100), x))) ELSE 0

\* p.trafficMod ?? 0
trafficModOf(p) == IF IsSome(p.trafficMod) THEN Get(p.trafficMod) ELSE 0

\* if (!grid) return 3; cell = findNearestCell(...); return cell ? cell.base : 3
basescoreOf(p, grid) ==
  IF ~IsSome(grid) THEN 3 * Unit
  ELSE LET cell == findNearestCell(p.lat, p.lng, grid)
       IN IF IsSome(cell) THEN Get(cell).base ELSE 3 * Unit

\* xs.reduce((a, b) => a + b, 0) / xs.length
averageOf(xs) == fDivInt(sumOf([i \in 1..Len(xs) |-> numberOf(xs[i])], Len(xs)), Len(xs))

\* 100 - (avgTrafficMod * 0.6 + maxTrafficMod * 0.4) * 25, clamped and rounded
trafficPctFrom(avgTrafficMod, maxTrafficMod) ==
  pctClamped(fSub(fInt(100),
                  fMul(fAdd(fMul(avgTrafficMod, dec(6)), fMul(maxTrafficMod, dec(4))),
                       fInt(25))))

trafficPctWith(avgTrafficMod, maxTrafficMod) ==
  IF known(avgTrafficMod) /\ known(maxTrafficMod)
  THEN trafficPctFrom(avgTrafficMod, maxTrafficMod)
  ELSE 0

trafficPctOf(trafficMods) ==
  trafficPctWith(averageOf(trafficMods), numberOf(maxOf(trafficMods)))

\* ((10 - avgScore) / 9) * 100, clamped and rounded
airPctFrom(avgScore) == pctClamped(fMul(fDivInt(fSub(fInt(10), avgScore), 9), fInt(100)))

airPctWith(avgScore) == IF known(avgScore) THEN airPctFrom(avgScore) ELSE 0

airPctOf(scores) == airPctWith(averageOf(scores))

\* (count / n) * 100
shareOf(count, n) == fMul(fDivInt(fInt(count), n), fInt(100))

\* Math.round(Math.min(100, greenCount / n * 100 * 0.7 + parkCount / n * 100 * 0.3))
greenPctOfMut(greenCount, parkCount, n) ==
  fRound(fMin(fInt(100),
              fAdd(fMul(shareOf(greenCount, n), dec(3)), fMul(shareOf(parkCount, n), dec(7)))))
greenPctOf(greenCount, parkCount, n) ==
  fRound(fMin(fInt(100),
              fAdd(fMul(shareOf(greenCount, n), dec(7)), fMul(shareOf(parkCount, n), dec(3)))))

\* (s - avgScore) ** 2
squareOf(d) == fMul(d, d)

\* scores.reduce((sum, s) => sum + (s - avgScore) ** 2, 0)
RECURSIVE squaresFrom(_, _, _)
squaresFrom(scores, avgScore, i) ==
  IF i = 0 THEN fZero
  ELSE fAdd(squaresFrom(scores, avgScore, i - 1),
            squareOf(fSub(numberOf(scores[i]), avgScore)))

\* Math.sqrt(variance)
varianceOf(scores, avgScore) ==
  fDivInt(squaresFrom(scores, avgScore, Len(scores)), Len(scores))

rootOf(variance) == IF known(variance) THEN fSqrt(variance) ELSE fZero

stdDevOf(scores, avgScore) == rootOf(varianceOf(scores, avgScore))

\* the standard deviation is measured against 4, not 3
consistencyPctFromMut(stdDev) ==
  pctClamped(fMul(fSub(fInt(1), fDivInt(stdDev, 4)), fInt(100)))

\* (1 - stdDev / 3) * 100, clamped and rounded
consistencyPctFrom(stdDev) ==
  pctClamped(fMul(fSub(fInt(1), fDivInt(stdDev, 3)), fInt(100)))

stdDevFrom(scores, avgScore) ==
  IF known(avgScore) THEN stdDevOf(scores, avgScore) ELSE fZero

consistencyPctWith(stdDev) == IF known(stdDev) THEN consistencyPctFrom(stdDev) ELSE 0

consistencyPctOf(scores) == consistencyPctWith(stdDevFrom(scores, averageOf(scores)))

\* the weights of traffic and air exchanged
overallOfMut(trafficPct, airPct, greenPct, consistencyPct) ==
  fRound(fAdd(fAdd(fAdd(fMul(fInt(trafficPct), dec(3)), fMul(fInt(airPct), dec(4))),
                   fMul(fInt(greenPct), dec(2))),
              fMul(fInt(consistencyPct), dec(1))))

\* trafficPct * 0.4 + airPct * 0.3 + greenPct * 0.2 + consistencyPct * 0.1, rounded
overallOf(trafficPct, airPct, greenPct, consistencyPct) ==
  fRound(fAdd(fAdd(fAdd(fMul(fInt(trafficPct), dec(4)), fMul(fInt(airPct), dec(3))),
                   fMul(fInt(greenPct), dec(2))),
              fMul(fInt(consistencyPct), dec(1))))

\* the four percentages are computed before they are weighted
overallWith(trafficPct, airPct, greenPct, consistencyPct) ==
  IF {trafficPct, airPct, greenPct, consistencyPct} \subseteq Int
  THEN overallOf(trafficPct, airPct, greenPct, consistencyPct)
  ELSE 0

\* the four-step ladder of a factor's detail text
ladderMut(pct, a, b, c, d) ==
  IF pct >= 80 THEN a ELSE IF pct >= 65 THEN b ELSE IF pct >= 50 THEN c ELSE d
ladder(pct, a, b, c, d) ==
  IF pct >= 80 THEN a ELSE IF pct >= 60 THEN b ELSE IF pct >= 40 THEN c ELSE d

trafficDetail(trafficPct) ==
  ladder(trafficPct, "Minimal road exhaust exposure", "Some road-adjacent stretches",
         "Significant traffic exposure", "Heavy traffic along much of the route")

airDetail(airPct) ==
  ladder(airPct, "Clean air throughout", "Generally good air",
         "Moderate pollution levels", "Poor air quality conditions")

greenDetail(greenPct) ==
  ladder(greenPct, "Mostly through parks and green space", "Good mix of greenery",
         "Some green sections", "Mostly urban, limited greenery")

consistencyDetail(consistencyPct) ==
  ladder(consistencyPct, "Even conditions throughout", "Mostly consistent",
         "Some bad patches along the way", "Quality varies a lot - expect bad stretches")

\* a detail is its text and the percentage of the note appended to it, if any
detailOf(text, notePct) ==
  [text |-> text, note |-> IF notePct > 0 THEN Some(notePct) ELSE None]

summaryBase(overall) ==
  IF overall >= 85 THEN "Excellent route - clean air, low traffic, great for hard efforts."
  ELSE IF overall >= 70 THEN "Good route for running with minor compromises."
  ELSE IF overall >= 55 THEN "Decent but has some traffic or pollution exposure."
  ELSE IF overall >= 40 THEN "Below average - consider alternatives if available."
  ELSE "Poor conditions - heavy traffic and pollution exposure."

\* [...factors].sort((a, b) => a.pct - b.pct)[0]: the sort is stable
worstOfMut(factors) ==
  factors[CHOOSE i \in 1..Len(factors) :
            /\ \A j \in 1..Len(factors) : factors[i].pct <= factors[j].pct
            /\ \A j \in (i + 1)..Len(factors) : factors[j].pct > factors[i].pct]
worstOf(factors) ==
  factors[CHOOSE i \in 1..Len(factors) :
            /\ \A j \in 1..Len(factors) : factors[i].pct <= factors[j].pct
            /\ \A j \in 1..(i - 1) : factors[j].pct > factors[i].pct]

\* the summary is its base sentence and the detail named as main concern, if any
summaryOf(overall, factors) ==
  LET worst == worstOf(factors)
  IN [base |-> summaryBase(overall),
      concern |-> IF worst.pct < 60 THEN Some(worst.detail) ELSE None]

noDataMut == [overall |-> 0, trafficExposure |-> 0, airQuality |-> 0, greenCorridor |-> 0,
              consistency |-> 0, summary |-> [base |-> "No data", concern |-> None],
              factors |-> << >>]
noData == [overall |-> 50, trafficExposure |-> 50, airQuality |-> 50, greenCorridor |-> 50,
           consistency |-> 50, summary |-> [base |-> "No data", concern |-> None],
           factors |-> << >>]

rateRoute(scoredPoints, grid) ==
  IF Len(scoredPoints) = 0 THEN noData
  ELSE
    LET n == Len(scoredPoints)
        scores == [i \in 1..n |-> scoredPoints[i].score]
        basescores == [i \in 1..n |-> basescoreOf(scoredPoints[i], grid)]
        trafficMods == [i \in 1..n |-> trafficModOf(scoredPoints[i])]
        trafficPct == trafficPctOf(trafficMods)
        airPct == airPctOf(scores)
        greenFromGrid == countOf([i \in 1..n |-> 2 * basescores[i] <= 3 * Unit])
        parkFromGrid == countOf([i \in 1..n |-> 2 * basescores[i] <= 5 * Unit])
        greenFromZones == countOf([i \in 1..n |-> scoredPoints[i].greenZone])
        nearGreenFromZones == countOf([i \in 1..n |-> scoredPoints[i].nearGreenZone])
        greenCount == Max(greenFromGrid, greenFromZones)
        parkCount == Max(parkFromGrid, nearGreenFromZones)
        greenPct == greenPctOf(greenCount, parkCount, n)
        consistencyPct == consistencyPctOf(scores)
        industrialCount == countOf([i \in 1..n |-> scoredPoints[i].industrialZone])
        industrialPct == fRound(shareOf(industrialCount, n))
        overall == overallWith(trafficPct, airPct, greenPct, consistencyPct)
        zonePct == fRound(shareOf(greenFromZones, n))
        factors ==
          << [label |-> "Traffic Exposure", pct |-> trafficPct,
              detail |-> detailOf(trafficDetail(trafficPct), industrialPct)],
             [label |-> "Air Quality", pct |-> airPct,
              detail |-> detailOf(airDetail(airPct), 0)],
             [label |-> "Green Corridor", pct |-> greenPct,
              detail |-> detailOf(greenDetail(greenPct), zonePct)],
             [label |-> "Consistency", pct |-> consistencyPct,
              detail |-> detailOf(consistencyDetail(consistencyPct), 0)] >>
    IN [overall |-> overall, trafficExposure |-> trafficPct, airQuality |-> airPct,
        greenCorridor |-> greenPct, consistency |-> consistencyPct,
        summary |-> summaryOf(overall, factors), factors |-> factors]

(***************************************************************************)
(* State.  One call is in progress at a time: op names the function, args  *)
(* its arguments, ret its returned value once it has returned, at the hour *)
(* the clock showed when it was called, prev the call before it (its args, *)
(* ret and at), now the hour the wall clock shows.  storage is the score   *)
(* history the browser keeps in localStorage and page the state of the     *)
(* Home component; the scoring engine touches neither.                     *)
(***************************************************************************)
VARIABLES op, args, at, ret, prev, now, storage, page

vars == << op, args, at, ret, prev, now, storage, page >>

\* bounds of the explored input space
MaxBandStep == 240
MaxSegs == 2
MaxPts == 3
MaxTicks == 1
MaxLatSteps == 9
MaxLngSteps == 11
MaxCells == 3
StartHour == 5

\* all sequences over S of length at most n
RECURSIVE SeqsUpTo(_, _)
SeqsUpTo(S, n) ==
  IF n = 0 THEN {<< >>}
  ELSE LET shorter == SeqsUpTo(S, n - 1)
       IN shorter \cup {Append(s, x) : s \in {t \in shorter : Len(t) = n - 1}, x \in S}

deg(whole, micro) == whole * 1000000 + micro

(***************************************************************************)
(* getBand                                                                 *)
(***************************************************************************)
\* scores in steps of 0.05 from 0
BandScores == {k * (Unit \div 20) : k \in 0..MaxBandStep}

InitBand ==
  /\ op = "getBand"
  /\ args \in {[score |-> s] : s \in BandScores}
  /\ ret = None
  /\ prev = None
  /\ now = StartHour
  /\ at = StartHour
  /\ storage = << >>
  /\ page = None

CallGetBand ==
  /\ op = "getBand"
  /\ ret = None
  /\ ret' = Some(getBand(args.score))
  /\ at' = now
  /\ UNCHANGED << op, args, prev, now, storage, page >>

NextBand == CallGetBand

SpecBand == InitBand /\ [][NextBand]_vars

(***************************************************************************)
(* trafficModifier                                                         *)
(***************************************************************************)
\* a road whose two ends lie dLat microdegrees north of (lat, lng), 3000 microdegrees
\* either side of it
roadAt(lat, lng, dLat, roadName, speedBand, frc, congestionRatio) ==
  [roadName |-> roadName, speedBand |-> speedBand,
   startLat |-> lat + dLat, startLng |-> lng - 3000,
   endLat |-> lat + dLat, endLng |-> lng + 3000,
   frc |-> frc, congestionRatio |-> congestionRatio]

\* road names, as LTA and TomTom spell them
RoadNames ==
  [PIE |-> << "P", "I", "E" >>,
   JalanPemimpin |-> << "J", "A", "L", "A", "N", " ", "P", "E", "M", "I", "M", "P", "I", "N" >>,
   CTE |-> << "C", "T", "E" >>,
   BraddellRoad |-> << "B", "r", "a", "d", "d", "e", "l", "l", " ", "R", "o", "a", "d" >>,
   AYE |-> << "A", "Y", "E" >>,
   OrchardRoad |-> << "O", "r", "c", "h", "a", "r", "d", " ", "R", "o", "a", "d" >>,
   KPE |-> << "K", "P", "E" >>,
   SLE |-> << "S", "L", "E" >>,
   TPE |-> << "T", "P", "E" >>,
   WestCoastHighway |-> << "W", "e", "s", "t", " ", "C", "o", "a", "s", "t", " ",
                           "H", "i", "g", "h", "w", "a", "y" >>]

Bishan == [lat |-> deg(1, 350000), lng |-> deg(103, 800000)]
BishanNorth == [lat |-> deg(1, 351348), lng |-> deg(103, 800000)]

FreeExpressway == roadAt(Bishan.lat, Bishan.lng, 0, RoadNames.PIE, 8, Some(0), Some(1000))
JammedResidential == roadAt(Bishan.lat, Bishan.lng, 0, RoadNames.JalanPemimpin, 1, Some(6), Some(100))
JammedExpressway == roadAt(Bishan.lat, Bishan.lng, 450, RoadNames.CTE, 1, Some(0), Some(100))
Arterial == roadAt(Bishan.lat, Bishan.lng, -900, RoadNames.BraddellRoad, 3, Some(3), Some(500))
InferredExpressway == roadAt(Bishan.lat, Bishan.lng, 1800, RoadNames.AYE, 3, None, None)
InferredArterial == roadAt(Bishan.lat, Bishan.lng, -2700, RoadNames.OrchardRoad, 5, None, None)
Unnamed == roadAt(Bishan.lat, Bishan.lng, 900, << >>, 1, None, None)
AtRadius == roadAt(Bishan.lat, Bishan.lng, -3594, RoadNames.KPE, 1, Some(0), Some(100))
InsideRadius == roadAt(Bishan.lat, Bishan.lng, 3570, RoadNames.SLE, 1, Some(0), Some(100))
ZeroStart == [FreeExpressway EXCEPT !.startLat = 0, !.startLng = 0]
ZeroEnd == [startLat |-> Bishan.lat, startLng |-> Bishan.lng, endLat |-> 0, endLng |-> 0,
            roadName |-> RoadNames.TPE, speedBand |-> 1, frc |-> Some(0), congestionRatio |-> Some(100)]
\* a road on the parallel of Bishan that ends 556 m east of it
Collinear == [JammedExpressway EXCEPT !.startLat = Bishan.lat, !.endLat = Bishan.lat,
                                      !.startLng = Bishan.lng + 5000,
                                      !.endLng = Bishan.lng + 8000]
PointRoad == [Arterial EXCEPT !.endLat = Arterial.startLat, !.endLng = Arterial.startLng]

SegmentPool ==
  {FreeExpressway, JammedResidential, JammedExpressway, Arterial, InferredExpressway,
   InferredArterial, Unnamed, AtRadius, InsideRadius, ZeroStart, ZeroEnd, PointRoad,
   Collinear,
   roadAt(Bishan.lat, Bishan.lng, 1350, RoadNames.WestCoastHighway, 4, None, None)}

InitTraffic ==
  /\ op = "trafficModifier"
  /\ args \in {[lat |-> p.lat, lng |-> p.lng, speedBands |-> s] :
                 p \in {Bishan, BishanNorth}, s \in SeqsUpTo(SegmentPool, MaxSegs)}
  /\ ret = None
  /\ prev = None
  /\ now = StartHour
  /\ at = StartHour
  /\ storage = << >>
  /\ page = None

CallTrafficModifier ==
  /\ op = "trafficModifier"
  /\ ret = None
  /\ ret' = Some(trafficModifier(args.lat, args.lng, args.speedBands))
  /\ at' = now
  /\ UNCHANGED << op, args, prev, now, storage, page >>

NextTraffic == CallTrafficModifier

SpecTraffic == InitTraffic /\ [][NextTraffic]_vars

(***************************************************************************)
(* rateRoute                                                               *)
(***************************************************************************)
\* a scored point as scoreRoutePoints builds it, from a score and a traffic penalty
\* in tenths
scored(p, score10, trafficMod, industrialZone, greenZone, nearGreenZone) ==
  LET b == getBand(score10 * Tenth)
  IN [lat |-> p.lat, lng |-> p.lng, distanceM |-> 0,
      score |-> score10 * Tenth, color |-> b.color, band |-> b.band,
      trafficMod |-> trafficMod,
      industrialZone |-> industrialZone,
      greenZone |-> greenZone,
      nearGreenZone |-> nearGreenZone]

MacRitchie == [lat |-> deg(1, 344000), lng |-> deg(103, 833000)]

ScoredPool ==
  { scored(MacRitchie, 10, Some(0), FALSE, TRUE, TRUE),
    scored(MacRitchie, 20, Some(5 * Tenth), FALSE, FALSE, TRUE),
    scored(Bishan, 33, Some(2 * Tenth), FALSE, FALSE, FALSE),
    scored(Bishan, 40, None, FALSE, FALSE, FALSE),
    scored(BishanNorth, 55, Some(17 * Tenth), FALSE, FALSE, FALSE),
    scored(BishanNorth, 61, Some(40 * Tenth), TRUE, FALSE, FALSE),
    scored(BishanNorth, 80, Some(30 * Tenth), FALSE, FALSE, FALSE),
    scored(BishanNorth, 100, Some(45 * Tenth), TRUE, FALSE, FALSE) }

RouteGrid ==
  [cells |-> << [lat |-> MacRitchie.lat, lng |-> MacRitchie.lng, base |-> 12 * Tenth],
                [lat |-> Bishan.lat + 200, lng |-> Bishan.lng - 100, base |-> 24 * Tenth],
                [lat |-> BishanNorth.lat + 300, lng |-> BishanNorth.lng, base |-> 40 * Tenth] >>]

RouteGridPool == {None, Some([cells |-> << >>]), Some(RouteGrid)}

InitRate ==
  /\ op = "rateRoute"
  /\ args \in {[scoredPoints |-> s, grid |-> g] :
                 s \in SeqsUpTo(ScoredPool, MaxPts), g \in RouteGridPool}
  /\ ret = None
  /\ prev = None
  /\ now = StartHour
  /\ at = StartHour
  /\ storage = << >>
  /\ page = None

CallRateRoute ==
  /\ op = "rateRoute"
  /\ ret = None
  /\ ret' = Some(rateRoute(args.scoredPoints, args.grid))
  /\ at' = now
  /\ UNCHANGED << op, args, prev, now, storage, page >>

NextRate == CallRateRoute

SpecRate == InitRate /\ [][NextRate]_vars

(***************************************************************************)
(* rateRoute on the same scored points in another order                    *)
(***************************************************************************)
OrderPool ==
  { scored(Bishan, 62, Some(30 * Tenth), FALSE, FALSE, FALSE),
    scored(Bishan, 85, Some(2 * Tenth), FALSE, FALSE, FALSE),
    scored(BishanNorth, 47, Some(1 * Tenth), FALSE, FALSE, FALSE) }

InitOrder ==
  /\ op = "rateRoute"
  /\ args \in {[scoredPoints |-> s, grid |-> g] :
                 s \in SeqsUpTo(OrderPool, MaxPts), g \in {None, Some(RouteGrid)}}
  /\ ret = None
  /\ prev = None
  /\ now = StartHour
  /\ at = StartHour
  /\ storage = << >>
  /\ page = None

\* xs in the order f
permuted(xs, f) == [i \in 1..Len(xs) |-> xs[f[i]]]

\* the scored points are rated again in another order
RateReordered ==
  /\ op = "rateRoute"
  /\ IsSome(ret)
  /\ prev = None
  /\ \E f \in Permutations(1..Len(args.scoredPoints)) :
       /\ args' = [args EXCEPT !.scoredPoints = permuted(args.scoredPoints, f)]
       /\ ret' = Some(rateRoute(permuted(args.scoredPoints, f), args.grid))
  /\ prev' = Some([args |-> args, ret |-> Get(ret), at |-> at])
  /\ at' = now
  /\ UNCHANGED << op, now, storage, page >>

NextOrder == CallRateRoute \/ RateReordered

SpecOrder == InitOrder /\ [][NextOrder]_vars

(***************************************************************************)
(* computeScore                                                            *)
(***************************************************************************)
Jurong == [lat |-> deg(1, 320000), lng |-> deg(103, 700000)]
JurongEdge == [lat |-> deg(1, 307000), lng |-> deg(103, 689000)]
GardensByTheBay == [lat |-> deg(1, 283600), lng |-> deg(103, 860700)]
InsideGardens == [lat |-> deg(1, 281000), lng |-> deg(103, 865000)]

ScorePoints == {Bishan, Jurong, JurongEdge, GardensByTheBay, InsideGardens}

\* a grid with one cell at each point; the bases are multiples of 0.05
ScoreGrid ==
  [cells |-> << [lat |-> Bishan.lat, lng |-> Bishan.lng, base |-> Unit],
                [lat |-> Jurong.lat + 40, lng |-> Jurong.lng - 30, base |-> 189 * (Unit \div 20)],
                [lat |-> JurongEdge.lat, lng |-> JurongEdge.lng + 500, base |-> 61 * (Unit \div 20)],
                [lat |-> GardensByTheBay.lat, lng |-> GardensByTheBay.lng, base |-> 4 * Unit] >>]

GridPool == {None, Some([cells |-> << >>]), Some(ScoreGrid)}

weather(pm25, wind, isRaining, intensity) ==
  [pm25 |-> pm25, wind |-> wind, isRaining |-> isRaining, intensity |-> intensity]

ConditionsPool ==
  {None, Some(weather(10, 25, TRUE, "Heavy")), Some(weather(30, 8, TRUE, "Light")),
   Some(weather(60, 3, TRUE, "Showers")), Some(weather(80, 0, FALSE, ""))}

HourPool == {None, Some(3), Some(8), Some(12)}

\* no segment list, an empty one, a jammed expressway through the point
bandsAt(p) ==
  {None, Some(<< >>), Some(<< roadAt(p.lat, p.lng, 0, RoadNames.CTE, 1, Some(0), Some(100)) >>)}

ScoreArgs ==
  UNION {{[lat |-> p.lat, lng |-> p.lng, conditions |-> c, grid |-> g, hour |-> h,
           speedBands |-> s] :
            c \in ConditionsPool, g \in GridPool, h \in HourPool, s \in bandsAt(p)} :
         p \in ScorePoints}

scoreOf(a, clock) ==
  computeScore(a.lat, a.lng, a.conditions, a.grid, a.hour, a.speedBands, clock)

InitScore ==
  /\ op = "computeScore"
  /\ args \in ScoreArgs
  /\ ret = None
  /\ prev = None
  /\ now = StartHour
  /\ at = StartHour
  /\ storage = << >>
  /\ page = None

CallComputeScore ==
  /\ op = "computeScore"
  /\ ret = None
  /\ ret' = Some(scoreOf(args, now))
  /\ at' = now
  /\ UNCHANGED << op, args, prev, now, storage, page >>

\* the wall clock moves to the next hour
Tick ==
  /\ IsSome(ret)
  /\ prev = None
  /\ (now - StartHour) % 24 < MaxTicks
  /\ now' = (now + 1) % 24
  /\ UNCHANGED << op, args, at, ret, prev, storage, page >>

\* the same call is made again
CallAgain ==
  /\ op = "computeScore"
  /\ IsSome(ret)
  /\ prev = None
  /\ prev' = Some([args |-> args, ret |-> Get(ret), at |-> at])
  /\ ret' = Some(scoreOf(args, now))
  /\ at' = now
  /\ UNCHANGED << op, args, now, storage, page >>

NextScore == CallComputeScore \/ Tick \/ CallAgain

SpecScore == InitScore /\ [][NextScore]_vars

(***************************************************************************)
(* scoreRoutePoints.  The samples are scored one after the other and the   *)
(* clock may move to the next hour between two of them.                    *)
(***************************************************************************)
sample(p, distanceM) == [lat |-> p.lat, lng |-> p.lng, distanceM |-> distanceM]

SamplePool == {sample(Bishan, 0), sample(JurongEdge, 50), sample(Jurong, 100)}

\* the hours read for n samples from the hour h on: they never go back
ClockReadings(n, h) ==
  {c \in [1..n -> {(h + k) % 24 : k \in 0..MaxTicks}] :
     \A i \in 1..n : \A j \in i..n : (c[i] - h) % 24 <= (c[j] - h) % 24}

InitRoute ==
  /\ op = "scoreRoutePoints"
  /\ args \in {[interpolated |-> s, conditions |-> Some(weather(60, 3, TRUE, "Showers")),
                grid |-> g,
                speedBands |-> << roadAt(Bishan.lat, Bishan.lng, 900, RoadNames.CTE, 1,
                                         Some(0), Some(100)) >>] :
                 s \in SeqsUpTo(SamplePool, MaxPts), g \in {None, Some(ScoreGrid)}}
  /\ ret = None
  /\ prev = None
  /\ now = StartHour
  /\ at = StartHour
  /\ storage = << >>
  /\ page = None

CallScoreRoutePoints ==
  /\ op = "scoreRoutePoints"
  /\ ret = None
  /\ \E nows \in ClockReadings(Len(args.interpolated), now) :
       /\ ret' = Some(scoreRoutePoints(args.interpolated, args.conditions, args.grid,
                                       args.speedBands, nows))
       /\ at' = nows
       /\ now' = IF Len(nows) = 0 THEN now ELSE nows[Len(nows)]
  /\ UNCHANGED << op, args, prev, storage, page >>

NextRoute == CallScoreRoutePoints

SpecRoute == InitRoute /\ [][NextRoute]_vars

(***************************************************************************)
(* industrialModifier, at the points of a lattice over Pioneer / Gul and   *)
(* the south-west of the Jurong Industrial Estate (0.003 deg of latitude   *)
(* by 0.004 deg of longitude) and at the points scored above               *)
(***************************************************************************)
Lattice ==
  {[lat |-> deg(1, 297000) + 3000 * i, lng |-> deg(103, 672000) + 4000 * j] :
     i \in 0..MaxLatSteps, j \in 0..MaxLngSteps}

InitZone ==
  /\ op = "industrialModifier"
  /\ args \in Lattice \cup ScorePoints
  /\ ret = None
  /\ prev = None
  /\ now = StartHour
  /\ at = StartHour
  /\ storage = << >>
  /\ page = None

CallIndustrialModifier ==
  /\ op = "industrialModifier"
  /\ ret = None
  /\ ret' = Some(industrialModifier(args.lat, args.lng, cosOf(args.lat)))
  /\ at' = now
  /\ UNCHANGED << op, args, prev, now, storage, page >>

NextZone == CallIndustrialModifier

SpecZone == InitZone /\ [][NextZone]_vars

(***************************************************************************)
(* computeScore under changing weather: the conditions are refreshed and   *)
(* the same point is scored again.                                         *)
(***************************************************************************)
Pm25Pool == {10, 13, 30, 40, 60, 80}
WindPool == {1, 3, 8, 15, 25}

WeatherArgs ==
  {[lat |-> p.lat, lng |-> p.lng, conditions |-> Some(weather(pm, w, r[1], r[2])),
    grid |-> g, hour |-> Some(h), speedBands |-> Some(<< >>)] :
     p \in {Bishan, Jurong}, g \in {None, Some(ScoreGrid)}, h \in {3, 8},
     pm \in Pm25Pool, w \in WindPool, r \in {<< FALSE, "" >>, << TRUE, "Moderate" >>}}

InitWeather ==
  /\ op = "computeScore"
  /\ args \in WeatherArgs
  /\ ret = None
  /\ prev = None
  /\ now = StartHour
  /\ at = StartHour
  /\ storage = << >>
  /\ page = None

\* a new PM2.5 reading arrives and the point is scored again
RefreshPm25 ==
  /\ IsSome(ret)
  /\ prev = None
  /\ \E pm \in Pm25Pool \ {Get(args.conditions).pm25} :
       LET a == [args EXCEPT !.conditions = Some([Get(args.conditions) EXCEPT !.pm25 = pm])]
       IN /\ args' = a
          /\ ret' = Some(scoreOf(a, now))
  /\ prev' = Some([args |-> args, ret |-> Get(ret), at |-> at])
  /\ at' = now
  /\ UNCHANGED << op, now, storage, page >>

\* a new wind reading arrives and the point is scored again
RefreshWind ==
  /\ IsSome(ret)
  /\ prev = None
  /\ \E w \in WindPool \ {Get(args.conditions).wind} :
       LET a == [args EXCEPT !.conditions = Some([Get(args.conditions) EXCEPT !.wind = w])]
       IN /\ args' = a
          /\ ret' = Some(scoreOf(a, now))
  /\ prev' = Some([args |-> args, ret |-> Get(ret), at |-> at])
  /\ at' = now
  /\ UNCHANGED << op, now, storage, page >>

NextWeather == CallComputeScore \/ RefreshPm25 \/ RefreshWind

SpecWeather == InitWeather /\ [][NextWeather]_vars

(***************************************************************************)
(* findNearestCell, on grids of cells around Bishan: two within 0.00001    *)
(* degrees of it, two at the same distance from it, one further away       *)
(***************************************************************************)
CellPool ==
  { [lat |-> Bishan.lat + 5, lng |-> Bishan.lng, base |-> 10 * Tenth],
    [lat |-> Bishan.lat, lng |-> Bishan.lng, base |-> 20 * Tenth],
    [lat |-> Bishan.lat + 200, lng |-> Bishan.lng - 100, base |-> 24 * Tenth],
    [lat |-> Bishan.lat - 150, lng |-> Bishan.lng + 150, base |-> 35 * Tenth],
    [lat |-> Bishan.lat + 2000, lng |-> Bishan.lng, base |-> 40 * Tenth] }

InitCell ==
  /\ op = "findNearestCell"
  /\ args \in {[lat |-> p.lat, lng |-> p.lng, grid |-> g] :
                 p \in {Bishan, BishanNorth},
                 g \in {None} \cup {Some([cells |-> s]) : s \in SeqsUpTo(CellPool, MaxCells)}}
  /\ ret = None
  /\ prev = None
  /\ now = StartHour
  /\ at = StartHour
  /\ storage = << >>
  /\ page = None

\* ret is the optional cell the call returned, inside Some
CallFindNearestCell ==
  /\ op = "findNearestCell"
  /\ ret = None
  /\ ret' = Some(findNearestCell(args.lat, args.lng, args.grid))
  /\ at' = now
  /\ UNCHANGED << op, args, prev, now, storage, page >>

NextCell == CallFindNearestCell

SpecCell == InitCell /\ [][NextCell]_vars

(***************************************************************************)
(* The score history (src/src/lib/history.ts).  localStorage holds one     *)
(* object under HISTORY_KEY; storage is its list of entries, a route id    *)
(* with its snapshots, in the order Object.keys gives them: the order in   *)
(* which the keys were created (route ids are never integer-like).  A      *)
(* route id `route-<n>` is written n.                                      *)
(***************************************************************************)
MAX_SNAPSHOTS == 50
MAX_ROUTES == 20

\* the calls the model makes on top of a history that is already there
MaxCalls == 2

\* new Date().toISOString() at ms milliseconds after 1970-01-01T00:00:00.000Z,
\* for the first ten seconds: the digits that differ between two such
\* strings, the second and the three digits of the millisecond
toISOString(ms) ==
  << (ms \div 1000) % 10, (ms \div 100) % 10, (ms \div 10) % 10, ms % 10 >>

\* a.localeCompare(b) for strings of digits: decided at the first place
\* where they differ, a proper prefix coming first
RECURSIVE localeCompareFrom(_, _, _)
localeCompareFrom(a, b, i) ==
  IF i > Len(a) /\ i > Len(b) THEN 0
  ELSE IF i > Len(a) THEN -1
  ELSE IF i > Len(b) THEN 1
  ELSE IF a[i] < b[i] THEN -1
  ELSE IF a[i] > b[i] THEN 1
  ELSE localeCompareFrom(a, b, i + 1)

localeCompare(a, b) == localeCompareFrom(a, b, 1)

\* the index of routeId among the keys of data, 0 when data[routeId] is undefined
keyIndex(data, routeId) ==
  IF \E i \in 1..Len(data) : data[i].routeId = routeId
  THEN CHOOSE i \in 1..Len(data) : data[i].routeId = routeId
  ELSE 0

\* arr.slice(-MAX_SNAPSHOTS) when arr is longer than MAX_SNAPSHOTS
sliced(arr) ==
  IF Len(arr) > MAX_SNAPSHOTS
  THEN SubSeq(arr, Len(arr) - MAX_SNAPSHOTS + 1, Len(arr))
  ELSE arr

\* if (!data[routeId]) data[routeId] = []; data[routeId].push(entry); slice
pushed(data, routeId, entry) ==
  IF keyIndex(data, routeId) = 0
  THEN Append(data, [routeId |-> routeId, snapshots |-> sliced(<< entry >>)])
  ELSE [data EXCEPT ![keyIndex(data, routeId)].snapshots = sliced(Append(@, entry))]

\* data[a][data[a].length - 1]?.timestamp ?? ""
lastTimestamp(e) ==
  IF Len(e.snapshots) = 0 THEN << >> ELSE e.snapshots[Len(e.snapshots)].timestamp

\* the comparator of keys.sort: negative when a is to come before b
byLastDescending(a, b) == localeCompare(lastTimestamp(b), lastTimestamp(a))

\* Array.prototype.sort is stable: e goes behind every entry that does not
\* compare after it
RECURSIVE inserted(_, _, _)
inserted(sorted, e, i) ==
  IF i = 0 \/ byLastDescending(sorted[i], e) <= 0
  THEN SubSeq(sorted, 1, i) \o << e >> \o SubSeq(sorted, i + 1, Len(sorted))
  ELSE inserted(sorted, e, i - 1)

insertedLast(sorted, e) ==
  IF Len(sorted) >= 0 THEN inserted(sorted, e, Len(sorted)) ELSE sorted

RECURSIVE sortedUpTo(_, _)
sortedUpTo(data, n) ==
  IF n = 0 THEN << >>
  ELSE insertedLast(sortedUpTo(data, n - 1), data[n])

\* the keys deleted: sorted.slice(MAX_ROUTES)
deletedKeys(data) ==
  IF Len(data) > MAX_ROUTES
  THEN {sortedUpTo(data, Len(data))[i].routeId : i \in (MAX_ROUTES + 1)..Len(data)}
  ELSE {}

\* delete data[key] for each of them; the other keys keep their order
without(data, keys) == SelectSeq(data, LAMBDA e : e.routeId \notin keys)

\* saveSnapshot(routeId, overall) at ms on the stored data: what
\* persistHistory writes back
enforced(data) ==
  IF Len(data) >= 0 THEN without(data, deletedKeys(data)) ELSE data

saveSnapshot(data, routeId, overall, ms) ==
  enforced(pushed(data, routeId, [timestamp |-> toISOString(ms), overall |-> overall]))

\* getHistory(routeId): data[routeId] ?? []
getHistory(data, routeId) ==
  IF keyIndex(data, routeId) = 0 THEN << >> ELSE data[keyIndex(data, routeId)].snapshots

(***************************************************************************)
(* Histories to start from: what storage holds after `own` calls for       *)
(* route 1 followed by one call for each of the routes 2..routes, the      *)
(* clock advancing by `pace` milliseconds from one call to the next.       *)
(***************************************************************************)
callOf(own, pace, i) ==
  [routeId |-> IF i <= own THEN 1 ELSE i - own + 1,
   overall |-> 60 + (i % 2),
   ms      |-> (i - 1) * pace]

nextHistory(data, call) ==
  IF Len(data) >= 0
  THEN saveSnapshot(data, call.routeId, call.overall, call.ms)
  ELSE data

\* data after the calls numbered from..to, one after the other
RECURSIVE historyFrom(_, _, _, _, _)
historyFrom(data, own, pace, from, to) ==
  IF Len(data) < 0 \/ from > to THEN data
  ELSE IF from = to THEN nextHistory(data, callOf(own, pace, from))
  ELSE historyFrom(historyFrom(data, own, pace, from, (from + to) \div 2),
                   own, pace, (from + to) \div 2 + 1, to)

historyAfter(own, pace, n) == historyFrom(<< >>, own, pace, 1, n)

Earlier ==
  {[own |-> o, routes |-> r, pace |-> p] :
     o \in {1, MAX_SNAPSHOTS - 1, MAX_SNAPSHOTS},
     r \in {1, MAX_ROUTES - 1, MAX_ROUTES},
     p \in {0, 1}}

\* the route ids a call is made for: the oldest route, the newest of a full
\* history, and new ones
Callers == {1, MAX_ROUTES, MAX_ROUTES + 1, MAX_ROUTES + 2}

\* args is the latest call's arguments, at the clock readings of the calls
\* made, prev the stored history before the latest call, now the clock in
\* milliseconds
InitHistory ==
  /\ op = "saveSnapshot"
  /\ args = None
  /\ at = << >>
  /\ ret = None
  /\ prev = None
  /\ page = None
  /\ \E e \in Earlier :
       /\ storage \in {<< >>, historyAfter(e.own, e.pace, e.own + e.routes - 1)}
       /\ now = IF storage = << >> THEN 0 ELSE (e.own + e.routes - 2) * e.pace

\* the newest timestamp the history holds
newest(data) ==
  IF data = << >> THEN toISOString(0)
  ELSE CHOOSE t \in {lastTimestamp(data[i]) : i \in 1..Len(data)} :
         \A i \in 1..Len(data) : localeCompare(lastTimestamp(data[i]), t) <= 0

\* localStorage.setItem is taken to succeed (persistHistory swallows the
\* exception of a full storage and leaves the old history in place)
CallSaveSnapshot ==
  /\ op = "saveSnapshot"
  /\ Len(at) < MaxCalls
  /\ \E routeId \in Callers, overall \in {40, 75} :
       /\ args' = Some([routeId |-> routeId, overall |-> overall])
       /\ storage' = saveSnapshot(storage, routeId, overall, now)
  /\ at' = Append(at, now)
  /\ prev' = Some(storage)
  /\ UNCHANGED << op, ret, now, page >>

\* a millisecond passes; the clock is let run one millisecond ahead of the
\* newest snapshot
Millisecond ==
  /\ op \in {"saveSnapshot", "Home"}
  /\ toISOString(now) = newest(storage)
  /\ now' = now + 1
  /\ UNCHANGED << op, args, at, ret, prev, storage, page >>

NextHistory == CallSaveSnapshot \/ Millisecond

SpecHistory == InitHistory /\ [][NextHistory]_vars

(***************************************************************************)
(* The Home component (src/unnamed/part_004).  page holds its state: the   *)
(* useState values the analyses write (error, analyzing, activeRoute,      *)
(* historySnapshots, savedRoutes, autoRefresh) and, for the analyses that  *)
(* were started, inFlight (those whose await has not resolved yet),        *)
(* settled (how each of the others ended) and started (how many began).    *)
(* A route id `route-<n>` is written << n >>, `route-<n>-rev` as           *)
(* << n, "rev" >>.  A handler runs to its first await, or from the last    *)
(* await to its end, without interruption: JavaScript is single-threaded.  *)
(***************************************************************************)
MAX_SAVED == 30

\* analyses started in one behaviour
MaxStarts == 3

\* activeRoute.id.endsWith("-rev") ? activeRoute.id.slice(0, -4) : `${activeRoute.id}-rev`
revId(id) == IF Len(id) = 2 THEN << id[1] >> ELSE << id[1], "rev" >>

\* [saved, ...prev.filter(r => r.id !== saved.id)].slice(0, MAX_SAVED)
updatedRoutes(prevRoutes, savedRoute) ==
  SubSeq(<< savedRoute >> \o SelectSeq(prevRoutes, LAMBDA r : r.id # savedRoute.id),
         1, Min(MAX_SAVED, 1 + Len(SelectSeq(prevRoutes, LAMBDA r : r.id # savedRoute.id))))

\* setError(null); setAnalyzing(true); setSelectedPoint(null); then the
\* first await: the analysis numbered page.started + 1 is in flight
begun(pg, fn, id) ==
  [pg EXCEPT !.error = None,
             !.analyzing = TRUE,
             !.started = pg.started + 1,
             !.inFlight = pg.inFlight \cup {[n |-> pg.started + 1, fn |-> fn, id |-> id]}]

\* the route that was on the page when the page first rendered
FirstRoute == [id |-> << 1 >>, overall |-> 60, analyzedAt |-> toISOString(0)]

InitHome ==
  /\ op = "Home"
  /\ args = None
  /\ at = << >>
  /\ ret = None
  /\ prev = None
  /\ now = 2
  /\ storage = << >>
  /\ \E routes \in {<< >>, << FirstRoute >>} :
       page = [error |-> None, analyzing |-> FALSE, activeRoute |-> None,
               historySnapshots |-> << >>, savedRoutes |-> routes,
               autoRefresh |-> FALSE, inFlight |-> {}, settled |-> {}, started |-> 0]

\* handleFileChange, handleDrop or loadSampleRoute hand a file to analyzeGPX
Upload ==
  /\ op = "Home"
  /\ page.started < MaxStarts
  /\ \E tooLarge \in BOOLEAN :
       page' = IF tooLarge
               THEN [page EXCEPT !.error = Some("GPX file too large. Maximum is 5 MB.")]
               ELSE begun(page, "analyzeGPX", None)
  /\ UNCHANGED << op, args, at, ret, prev, now, storage >>

\* a click on a saved route: refreshRoute(saved)
ClickSaved ==
  /\ op = "Home"
  /\ page.started < MaxStarts
  /\ \E i \in 1..Len(page.savedRoutes) :
       page' = begun(page, "analyzeCoordinates", Some(page.savedRoutes[i].id))
  /\ UNCHANGED << op, args, at, ret, prev, now, storage >>

\* reverseRoute: if (!activeRoute) return
Reverse ==
  /\ op = "Home"
  /\ page.started < MaxStarts
  /\ IsSome(page.activeRoute)
  /\ page' = begun(page, "analyzeCoordinates", Some(revId(Get(page.activeRoute).id)))
  /\ UNCHANGED << op, args, at, ret, prev, now, storage >>

\* the button: setAutoRefresh(v => !v); it is shown with an active route
ToggleAutoRefresh ==
  /\ op = "Home"
  /\ IsSome(page.activeRoute)
  /\ page' = [page EXCEPT !.autoRefresh = ~ page.autoRefresh]
  /\ UNCHANGED << op, args, at, ret, prev, now, storage >>

\* the interval of the auto-refresh effect fires: it exists while
\* autoRefresh && activeRoute
AutoRefresh ==
  /\ op = "Home"
  /\ page.started < MaxStarts
  /\ page.autoRefresh
  /\ IsSome(page.activeRoute)
  /\ page' = begun(page, "analyzeCoordinates", Some(Get(page.activeRoute).id))
  /\ UNCHANGED << op, args, at, ret, prev, now, storage >>

\* the route an analysis ends with: analyzeGPX names it `route-${Date.now()}`
analyzedRoute(a, overall, ms) ==
  [id         |-> IF a.fn = "analyzeGPX" THEN << ms >> ELSE Get(a.id),
   overall    |-> overall,
   analyzedAt |-> toISOString(ms)]

\* the awaits of an analysis resolve and the rest of the try block runs:
\* setActiveRoute, saveSnapshot, setHistorySnapshots(getHistory(id)),
\* setSavedRoutes, and setAnalyzing(false) in finally
Succeed ==
  /\ op = "Home"
  /\ \E a \in page.inFlight, overall \in {40, 75} :
       /\ storage' = saveSnapshot(storage, analyzedRoute(a, overall, now).id, overall, now)
       /\ page' = [page EXCEPT
            !.activeRoute = Some(analyzedRoute(a, overall, now)),
            !.historySnapshots = getHistory(storage', analyzedRoute(a, overall, now).id),
            !.savedRoutes = updatedRoutes(page.savedRoutes, analyzedRoute(a, overall, now)),
            !.analyzing = FALSE,
            !.inFlight = page.inFlight \ {a},
            !.settled = page.settled \cup
                          {[n |-> a.n, result |-> Some(analyzedRoute(a, overall, now))]}]
  /\ UNCHANGED << op, args, at, ret, prev, now >>

\* an await rejects or the scoring throws: setError in catch, and
\* setAnalyzing(false) in finally
Fail ==
  /\ op = "Home"
  /\ \E a \in page.inFlight :
       page' = [page EXCEPT
         !.error = Some("Failed to analyze route"),
         !.analyzing = FALSE,
         !.inFlight = page.inFlight \ {a},
         !.settled = page.settled \cup {[n |-> a.n, result |-> None]}]
  /\ UNCHANGED << op, args, at, ret, prev, now, storage >>

NextHome ==
  \/ Upload \/ ClickSaved \/ Reverse \/ ToggleAutoRefresh \/ AutoRefresh
  \/ Succeed \/ Fail \/ Millisecond

SpecHome == InitHome /\ [][NextHome]_vars

(***************************************************************************)
(* Properties of getBand                                                   *)
(***************************************************************************)
bandReturned == op = "getBand" /\ IsSome(ret)

\* the band the tiers of the specification give a score of at most 10
tierOf(score) ==
  IF score <= 2 * Unit THEN "excellent"
  ELSE IF 2 * score <= 7 * Unit THEN "good"
  ELSE IF score <= 5 * Unit THEN "moderate"
  ELSE IF score <= 7 * Unit THEN "poor"
  ELSE "hazardous"

\* C6: the bands are upper-closed tiers: a score of exactly 2.0 is excellent and 2.1 is
\* good; a score in (2.0, 3.5] is good, one up to 5.0 moderate, up to 7.0 poor and up
\* to 10 hazardous.
C6_UpperClosedTiers ==
  (bandReturned /\ args.score <= 10 * Unit) =>
    /\ Get(ret).band = tierOf(args.score)
    /\ (args.score = 2 * Unit => Get(ret).band = "excellent")
    /\ (args.score = 21 * Tenth => Get(ret).band = "good")

\* getBand has returned for a score that is exactly a tier's upper limit
C6_Witness ==
  /\ bandReturned
  /\ args.score = 2 * Unit
  /\ Get(ret).band = "excellent"

(***************************************************************************)
(* Properties of trafficModifier                                           *)
(***************************************************************************)
trafficReturned == op = "trafficModifier" /\ IsSome(ret)

\* a segment all four of whose coordinates are present and non-zero
validSegment(band) ==
  band.startLat # 0 /\ band.startLng # 0 /\ band.endLat # 0 /\ band.endLng # 0

\* every segment is either valid or has no start point
wellFormed(speedBands) ==
  \A i \in 1..Len(speedBands) :
    validSegment(speedBands[i]) \/ speedBands[i].startLat = 0 \/ speedBands[i].startLng = 0

\* the exhaust contributions of the valid segments within the radius of the point
contributions(lat, lng, speedBands) ==
  {exhaustOf(speedBands[i], bandDist(lat, lng, speedBands[i], cosOf(lat))) :
     i \in {j \in 1..Len(speedBands) :
              /\ validSegment(speedBands[j])
              /\ bandDist(lat, lng, speedBands[j], cosOf(lat)) < TRAFFIC_RADIUS}}

\* M: the largest single contribution, 0 when there is none
largestContribution(lat, lng, speedBands) ==
  LET cs == contributions(lat, lng, speedBands) \cup {0}
  IN CHOOSE m \in cs : \A c \in cs : c <= m

reversed(s) == [i \in 1..Len(s) |-> s[Len(s) + 1 - i]]

\* C9: the traffic modifier is round1(min(4.0, 3.5 * M)) with M the largest single
\* contribution of a valid segment within 400 m: it does not change when the segments
\* are reordered or repeated, and a free-flowing expressway together with a jammed
\* residential road at the same distance gives what the expressway alone gives.
C9_WorstRoadWins ==
  (trafficReturned /\ wellFormed(args.speedBands)) =>
    LET M == largestContribution(args.lat, args.lng, args.speedBands)
    IN /\ Get(ret) = RoundDiv(IF 35 * M > 40 * ExhaustDen THEN 40 * ExhaustDen ELSE 35 * M,
                              ExhaustDen) * Tenth
       /\ Get(ret) = trafficModifier(args.lat, args.lng, reversed(args.speedBands))
       /\ Get(ret) = trafficModifier(args.lat, args.lng, args.speedBands \o args.speedBands)
       /\ (args.speedBands \in {<< FreeExpressway, JammedResidential >>,
                                << JammedResidential, FreeExpressway >>}
             => /\ Get(ret) = trafficModifier(args.lat, args.lng, << FreeExpressway >>)
                /\ Get(ret) > trafficModifier(args.lat, args.lng, << JammedResidential >>))

\* two different roads within the radius contribute differently, and the result is
\* below the cap
C9_Witness ==
  /\ trafficReturned
  /\ wellFormed(args.speedBands)
  /\ Cardinality(contributions(args.lat, args.lng, args.speedBands) \ {0}) = 2
  /\ Get(ret) < 40 * Tenth
  /\ Get(ret) > 0

rateReturned == op = "rateRoute" /\ IsSome(ret)

isPct(x) == x \in 0..100

\* C2: for every list of scored points, the empty one included, overall,
\* trafficExposure, airQuality, greenCorridor and consistency are integers in [0, 100],
\* and so is the pct of every factor.
C2_PercentagesInRange ==
  rateReturned =>
    LET r == Get(ret)
    IN /\ isPct(r.overall)
       /\ isPct(r.trafficExposure)
       /\ isPct(r.airQuality)
       /\ isPct(r.greenCorridor)
       /\ isPct(r.consistency)
       /\ \A i \in 1..Len(r.factors) : isPct(r.factors[i].pct)

\* a route whose traffic penalty alone would put the traffic percentage below 0
C2_Witness ==
  /\ rateReturned
  /\ Len(args.scoredPoints) > 0
  /\ \A i \in 1..Len(args.scoredPoints) : trafficModOf(args.scoredPoints[i]) = 45 * Tenth
  /\ Get(ret).trafficExposure = 0
  /\ Len(Get(ret).factors) = 4

\* C3: rateRoute of the empty list returns overall 50, all four factor scores 50, the
\* summary "No data" and no factors.
C3_EmptyRouteNeutral ==
  (rateReturned /\ Len(args.scoredPoints) = 0) =>
    LET r == Get(ret)
    IN /\ r.overall = 50
       /\ r.trafficExposure = 50
       /\ r.airQuality = 50
       /\ r.greenCorridor = 50
       /\ r.consistency = 50
       /\ r.summary = [base |-> "No data", concern |-> None]
       /\ r.factors = << >>

\* rateRoute has returned for the empty list and a grid
C3_Witness ==
  /\ rateReturned
  /\ Len(args.scoredPoints) = 0
  /\ IsSome(args.grid)
  /\ Get(ret).overall = 50

(***************************************************************************)
(* Properties of computeScore                                              *)
(***************************************************************************)
scoreReturned == op = "computeScore" /\ IsSome(ret)

\* the sum of the reported parts of a score
partsOf(r) ==
  r.breakdown.staticBase + r.breakdown.pm25Modifier + r.breakdown.windModifier
    + r.breakdown.timeModifier + r.breakdown.rainModifier + r.breakdown.trafficModifier

\* C1: the score computeScore returns lies in [1.0, 10.0] and is a multiple of 0.1.
C1_ScoreRange ==
  scoreReturned =>
    /\ Unit <= Get(ret).score
    /\ Get(ret).score <= 10 * Unit
    /\ Get(ret).score % Tenth = 0

\* the parts add up to more than 10 and the score is 10
C1_Witness ==
  /\ scoreReturned
  /\ partsOf(Get(ret)) > 11 * Unit
  /\ Get(ret).score = 10 * Unit

noCells(grid) == ~IsSome(grid) \/ Len(Get(grid).cells) = 0

noBands(speedBands) == ~IsSome(speedBands) \/ Len(Get(speedBands)) = 0

\* the point is reported outside every zone and every zone buffer
outsideZones(r) == ~r.isIndustrial /\ ~r.isGreenZone /\ ~r.isNearGreenZone

\* C4: missing inputs have neutral defaults: without a grid, or with a grid without
\* cells, the static base is 3.0; without conditions the PM2.5, wind and rain modifiers
\* are 0; without segments, or with an empty list, the base traffic modifier is 0; so
\* outside every zone and buffer computeScore(point, null, null, hour, []) is
\* 3.0 + timeModifier(hour), rounded to a tenth and clamped to [1, 10].
C4_NeutralDefaults ==
  scoreReturned =>
    LET r == Get(ret)
    IN /\ noCells(args.grid) =>
            /\ gridBase(args.lat, args.lng, args.grid) = 3 * Unit
            /\ (outsideZones(r) => r.breakdown.staticBase = 3 * Unit)
       /\ ~IsSome(args.conditions) =>
            /\ r.breakdown.pm25Modifier = 0
            /\ r.breakdown.windModifier = 0
            /\ r.breakdown.rainModifier = 0
       /\ noBands(args.speedBands) =>
            /\ baseTrafMod(args.lat, args.lng, args.speedBands) = 0
            /\ (outsideZones(r) => r.breakdown.trafficModifier = 0)
       /\ ( /\ noCells(args.grid)
            /\ ~IsSome(args.conditions)
            /\ noBands(args.speedBands)
            /\ IsSome(args.hour)
            /\ outsideZones(r) ) =>
            LET x == RoundDiv(3 * Unit + timeModifier(Get(args.hour)), Tenth) * Tenth
            IN r.score = IF x < Unit THEN Unit ELSE IF x > 10 * Unit THEN 10 * Unit ELSE x

\* computeScore(point, null, null, 8, []) has returned 4.5 for a point outside the zones
C4_Witness ==
  /\ scoreReturned
  /\ ~IsSome(args.grid)
  /\ ~IsSome(args.conditions)
  /\ args.speedBands = Some(<< >>)
  /\ args.hour = Some(8)
  /\ outsideZones(Get(ret))
  /\ Get(ret).score = 45 * Tenth

\* C5: with an explicit hour, two calls with the same arguments return the same result,
\* whatever the wall clock shows at each call.
C5_Deterministic ==
  (scoreReturned /\ IsSome(prev) /\ Get(prev).args = args /\ IsSome(args.hour)) =>
    Get(ret) = Get(prev).ret

\* the same call with an explicit hour was made at two different clock hours, between
\* which the time modifier of the clock hour changed
C5_Witness ==
  /\ scoreReturned
  /\ IsSome(prev)
  /\ Get(prev).args = args
  /\ IsSome(args.hour)
  /\ timeModifier(Get(prev).at) # timeModifier(at)
  /\ Get(ret) = Get(prev).ret

\* the arguments of the two calls differ in the PM2.5 reading only
onlyPm25Differs(a, b) ==
  /\ IsSome(a.conditions)
  /\ IsSome(b.conditions)
  /\ Get(a.conditions).pm25 # Get(b.conditions).pm25
  /\ b = [a EXCEPT !.conditions = Some([Get(a.conditions) EXCEPT !.pm25 = Get(b.conditions).pm25])]

\* the arguments of the two calls differ in the wind speed only
onlyWindDiffers(a, b) ==
  /\ IsSome(a.conditions)
  /\ IsSome(b.conditions)
  /\ Get(a.conditions).wind # Get(b.conditions).wind
  /\ b = [a EXCEPT !.conditions = Some([Get(a.conditions) EXCEPT !.wind = Get(b.conditions).wind])]

\* C7: with every other argument equal, a higher PM2.5 reading never gives a lower score.
C7_Pm25Monotone ==
  ( /\ scoreReturned
    /\ IsSome(prev)
    /\ onlyPm25Differs(Get(prev).args, args)
    /\ Get(Get(prev).args.conditions).pm25 <= Get(args.conditions).pm25 ) =>
    Get(prev).ret.score <= Get(ret).score

\* the PM2.5 reading rose and the score rose with it
C7_Witness ==
  /\ scoreReturned
  /\ IsSome(prev)
  /\ onlyPm25Differs(Get(prev).args, args)
  /\ Get(Get(prev).args.conditions).pm25 < Get(args.conditions).pm25
  /\ Get(prev).ret.score < Get(ret).score

\* C8: with every other argument equal, a higher wind speed never gives a higher score.
C8_WindMonotone ==
  ( /\ scoreReturned
    /\ IsSome(prev)
    /\ onlyWindDiffers(Get(prev).args, args)
    /\ Get(Get(prev).args.conditions).wind <= Get(args.conditions).wind ) =>
    Get(ret).score <= Get(prev).ret.score

\* the wind rose and the score fell
C8_Witness ==
  /\ scoreReturned
  /\ IsSome(prev)
  /\ onlyWindDiffers(Get(prev).args, args)
  /\ Get(Get(prev).args.conditions).wind < Get(args.conditions).wind
  /\ Get(ret).score < Get(prev).ret.score

(***************************************************************************)
(* Properties of trafficModifier: the cut-off and the invalid segments     *)
(***************************************************************************)
\* the distance from the point to a segment, in metres
segmentDistance(lat, lng, band) ==
  pointToSegmentDist(lat, lng, band.startLat, band.startLng, band.endLat, band.endLng,
                     cosOf(lat))

\* the segments of a list that satisfy keep, in order
RECURSIVE keepOnly(_, _)
keepOnly(speedBands, keep) ==
  IF Len(speedBands) = 0 THEN << >>
  ELSE IF Head(speedBands) \in keep
       THEN << Head(speedBands) >> \o keepOnly(Tail(speedBands), keep)
       ELSE keepOnly(Tail(speedBands), keep)

\* the segments of the pool strictly within the radius of the point
nearSegments(lat, lng) ==
  {band \in SegmentPool : segmentDistance(lat, lng, band) < TRAFFIC_RADIUS}

\* C11: if every segment of the list is 400 m or more from the point (exactly 400 m
\* included) the traffic modifier is exactly 0; a segment contributes only when it is
\* strictly closer than 400 m, so the segments at 400 m or more can be removed without
\* changing the result.
C11_DistanceCutOff ==
  trafficReturned =>
    /\ (\A i \in 1..Len(args.speedBands) :
          segmentDistance(args.lat, args.lng, args.speedBands[i]) >= TRAFFIC_RADIUS)
         => Get(ret) = 0
    /\ Get(ret) = trafficModifier(args.lat, args.lng,
                                  keepOnly(args.speedBands, nearSegments(args.lat, args.lng)))

\* a jammed expressway exactly 400 m away, alone or with roads further away
C11_Witness ==
  /\ trafficReturned
  /\ \E i \in 1..Len(args.speedBands) :
       /\ validSegment(args.speedBands[i])
       /\ segmentDistance(args.lat, args.lng, args.speedBands[i]) = TRAFFIC_RADIUS
  /\ \A i \in 1..Len(args.speedBands) :
       segmentDistance(args.lat, args.lng, args.speedBands[i]) >= TRAFFIC_RADIUS
  /\ Get(ret) = 0

\* the segments of the pool with four non-zero coordinates
validSegments == {band \in SegmentPool : validSegment(band)}

\* C12: a segment with a zero start coordinate or a zero end coordinate never
\* contributes: the traffic modifier of a list equals that of the list with such
\* segments removed, and a list made only of such segments gives exactly 0.
C12_InvalidSegmentsSkipped ==
  trafficReturned =>
    /\ Get(ret) = trafficModifier(args.lat, args.lng, keepOnly(args.speedBands, validSegments))
    /\ (\A i \in 1..Len(args.speedBands) : ~validSegment(args.speedBands[i])) => Get(ret) = 0

(***************************************************************************)
(* Green zones                                                             *)
(***************************************************************************)
\* a ring of (lat, lng) pairs as a ring of (lng, lat) pairs
lngLat(ring) == [i \in 1..Len(ring) |-> << ring[i][2], ring[i][1] >>]

\* the point lies inside the polygon of a listed green zone, whose ring is written as
\* (lat, lng) pairs
insideGreenZone(lat, lng) ==
  \E z \in 1..Len(GREEN_ZONES) : pointInPolygon(lat, lng, lngLat(GREEN_ZONES[z]))

\* the point lies less than 150 m from the boundary of a listed green zone
nearGreenZone(lat, lng) ==
  \E z \in 1..Len(GREEN_ZONES) :
    distToPolygonEdge(lat, lng, lngLat(GREEN_ZONES[z]), cosOf(lat)) < GREEN_BUFFER_M

\* the static base the green zones allow
clampedBase(lat, lng, base) ==
  IF insideGreenZone(lat, lng) THEN Min(base, 12 * Tenth)
  ELSE IF nearGreenZone(lat, lng) THEN Min(base, 20 * Tenth)
  ELSE base

\* C13: the static base of a point inside a listed green zone is min(grid base, 1.2),
\* that of a point within 150 m of the boundary of one is min(grid base, 2.0), and
\* that of any other point is the grid base.
C13_GreenZoneClamp ==
  scoreReturned =>
    Get(ret).breakdown.staticBase =
      Round1(clampedBase(args.lat, args.lng, gridBase(args.lat, args.lng, args.grid)))

\* the call of the Gardens by the Bay scenario: no conditions, no grid, no segments
gardensScenario ==
  /\ scoreReturned
  /\ args.lat = GardensByTheBay.lat
  /\ args.lng = GardensByTheBay.lng
  /\ args.conditions = None
  /\ args.grid = None
  /\ args.speedBands = Some(<< >>)

\* C14: computeScore(1.2836, 103.8607, null, null, hour, []) reports the point inside a
\* green zone, a static base of 1.2 and the score 1.2 + timeModifier(hour), rounded to a
\* tenth and clamped to [1, 10].
C14_GardensByTheBay ==
  gardensScenario =>
    /\ Get(ret).isGreenZone
    /\ Get(ret).breakdown.staticBase = 12 * Tenth
    /\ Get(ret).score =
         Max(Unit, Min(10 * Unit,
                       Round1(12 * Tenth + timeModifier(currentHourOf(args.hour, at)))))

(***************************************************************************)
(* Route rating                                                            *)
(***************************************************************************)
\* ys holds the elements of xs, each as often, in some order
isPermutation(xs, ys) ==
  /\ Len(xs) = Len(ys)
  /\ \A x \in {xs[i] : i \in 1..Len(xs)} :
       Cardinality({i \in 1..Len(xs) : xs[i] = x}) = Cardinality({i \in 1..Len(ys) : ys[i] = x})

\* rateRoute has returned for a list and then for a reordering of it, with the same grid
ratedReordered ==
  /\ rateReturned
  /\ IsSome(prev)
  /\ Len(args.scoredPoints) > 0
  /\ isPermutation(Get(prev).args.scoredPoints, args.scoredPoints)
  /\ Get(prev).args.grid = args.grid

\* C15: rateRoute returns the same record (overall, the four factor scores, the summary
\* and the factors) for a non-empty list of scored points and for every reordering of
\* it, with the same grid.
C15_OrderIndependent == ratedReordered => Get(ret) = Get(prev).ret

(***************************************************************************)
(* scoreRoutePoints                                                        *)
(***************************************************************************)
routeReturned == op = "scoreRoutePoints" /\ IsSome(ret)

\* the scored point q reports the sample p and what computeScore returns for it
reports(q, p, r) ==
  /\ q.lat = p.lat
  /\ q.lng = p.lng
  /\ q.distanceM = p.distanceM
  /\ q.score = r.score
  /\ q.band = r.band
  /\ q.color = r.color
  /\ q.trafficMod = Some(r.trafficMod)
  /\ q.industrialZone = r.isIndustrial
  /\ q.greenZone = r.isGreenZone
  /\ q.nearGreenZone = r.isNearGreenZone

\* computeScore for the sample p alone, at the hour the clock showed for it
aloneAt(p, hour) ==
  computeScore(p.lat, p.lng, args.conditions, args.grid, None, Some(args.speedBands), hour)

\* C16: scoreRoutePoints returns one scored point per sample, in the order of the
\* samples; the i-th copies lat, lng and distanceM of the i-th sample, and its score,
\* band, color, trafficMod and zone flags are those computeScore returns for that
\* sample alone.
C16_OnePointPerSample ==
  routeReturned =>
    /\ Len(Get(ret)) = Len(args.interpolated)
    /\ \A i \in 1..Len(args.interpolated) :
         reports(Get(ret)[i], args.interpolated[i], aloneAt(args.interpolated[i], at[i]))

\* three different samples were scored and got three different scores
C16_Witness ==
  /\ routeReturned
  /\ Len(args.interpolated) = 3
  /\ Cardinality({args.interpolated[i] : i \in 1..3}) = 3
  /\ Cardinality({Get(ret)[i].score : i \in 1..3}) = 3
  /\ Get(ret)[3].distanceM = 100

rateReturnedNonEmpty == rateReturned /\ Len(args.scoredPoints) > 0

\* w * pct for a weight of w tenths, as a double
weighted(w, pct) == fMul(dec(w), fInt(pct))

tenthsOf(scoredPoints) == [i \in 1..Len(scoredPoints) |-> scoredPoints[i].score \div Tenth]

RECURSIVE total(_, _)
total(xs, i) == IF i = 0 THEN 0 ELSE xs[i] + total(xs, i - 1)

\* n^2 times the population variance of xs: n * sum(x^2) - sum(x)^2
spread(xs) ==
  Len(xs) * total([i \in 1..Len(xs) |-> xs[i] * xs[i]], Len(xs))
    - total(xs, Len(xs)) * total(xs, Len(xs))

\* round(clamp(100 * (1 - sd / 3), 0, 100)) for scores t in tenths, in integers: with
\* w == spread(t) the variance is w / (100 n^2), and the rounded value is at least k
\* iff sd <= 3 * (201 - 2k) / 200, that is iff 400 w <= 9 n^2 (201 - 2k)^2
consistencyOf(t) ==
  CHOOSE k \in 0..100 :
    /\ k = 0 \/ 400 * spread(t) <= 9 * Len(t) * Len(t) * (201 - 2 * k) * (201 - 2 * k)
    /\ k = 100 \/ 400 * spread(t) > 9 * Len(t) * Len(t) * (199 - 2 * k) * (199 - 2 * k)

uniform(scoredPoints, score10) ==
  [i \in 1..Len(scoredPoints) |-> [scoredPoints[i] EXCEPT !.score = score10 * Tenth]]

\* C18: consistency is 100 * (1 - sd / 3), clamped to [0, 100] and rounded, with sd the
\* population standard deviation of the scores; it is 100 when all scores are equal
\* and 0 when sd >= 3, and the scores 2.0, 2.0, 8.0 get less than the same route with
\* the scores 4.0, 4.0, 4.0.
C18_Consistency ==
  rateReturnedNonEmpty =>
    /\ Get(ret).consistency = consistencyOf(tenthsOf(args.scoredPoints))
    /\ spread(tenthsOf(args.scoredPoints)) = 0 => Get(ret).consistency = 100
    /\ spread(tenthsOf(args.scoredPoints)) >= 900 * Len(args.scoredPoints) * Len(args.scoredPoints)
         => Get(ret).consistency = 0
    /\ tenthsOf(args.scoredPoints) = << 20, 20, 80 >>
         => Get(ret).consistency < rateRoute(uniform(args.scoredPoints, 40), args.grid).consistency

\* the route with the scores 2.0, 2.0, 8.0 was rated
C18_Witness ==
  /\ rateReturned
  /\ tenthsOf(args.scoredPoints) = << 20, 20, 80 >>
  /\ Get(ret).consistency = 6

(***************************************************************************)
(* Industrial zones                                                        *)
(***************************************************************************)
zoneReturned == op = "industrialModifier" /\ IsSome(ret)

\* the zones whose polygon holds the point, and those whose boundary is less than
\* 300 m from it
zonesHolding(lat, lng) ==
  {z \in 1..Len(INDUSTRIAL_ZONES) : pointInPolygon(lat, lng, INDUSTRIAL_ZONES[z])}

zonesWithin(lat, lng) ==
  {z \in 1..Len(INDUSTRIAL_ZONES) :
     distToPolygonEdge(lat, lng, INDUSTRIAL_ZONES[z], cosOf(lat)) < INDUSTRIAL_BUFFER_M}

\* C19: for a point inside at least one industrial polygon, industrialModifier returns
\* the addition 1.2 and the multiplier 1.8, and computeScore reports isIndustrial.
C19_IndustrialContainment ==
  (zoneReturned /\ zonesHolding(args.lat, args.lng) # {}) =>
    /\ Get(ret).addition = 12 * Tenth
    /\ 10 * Get(ret).multiplier = 18 * MultDen
    /\ computeScore(args.lat, args.lng, None, None, Some(12), None, now).isIndustrial

\* the first zone in list order whose boundary is less than 300 m from the point
firstWithin(lat, lng) ==
  CHOOSE z \in zonesWithin(lat, lng) : \A y \in zonesWithin(lat, lng) : z <= y

\* the metres by which the point is inside the buffer of zone z
insideBuffer(lat, lng, z) ==
  INDUSTRIAL_BUFFER_M - distToPolygonEdge(lat, lng, INDUSTRIAL_ZONES[z], cosOf(lat))

\* addition = 0.8 * f and multiplier = 1 + 0.6 * f for f = metres / 300
scaledBy(r, metres) ==
  /\ 10 * INDUSTRIAL_BUFFER_M * r.addition = 8 * Unit * metres
  /\ 10 * INDUSTRIAL_BUFFER_M * (r.multiplier - MultDen) = 6 * MultDen * metres

\* C20: for a point in no industrial polygon, industrialModifier returns addition 0 and
\* multiplier 1 if every zone boundary is 300 m or more away, and otherwise
\* 0.8 * f and 1 + 0.6 * f with f = 1 - d / 300 for the distance d to the boundary of
\* the first zone in list order within the buffer; the addition is always in [0, 1.2]
\* and the multiplier in [1, 1.8].
C20_IndustrialBuffer ==
  zoneReturned =>
    /\ 0 <= Get(ret).addition /\ Get(ret).addition <= 12 * Tenth
    /\ MultDen <= Get(ret).multiplier /\ 10 * Get(ret).multiplier <= 18 * MultDen
    /\ zonesHolding(args.lat, args.lng) = {} =>
         IF zonesWithin(args.lat, args.lng) = {}
         THEN Get(ret).addition = 0 /\ Get(ret).multiplier = MultDen
         ELSE scaledBy(Get(ret), insideBuffer(args.lat, args.lng,
                                              firstWithin(args.lat, args.lng)))

\* a point in no polygon and in the buffers of two zones, at different distances
C20_Witness ==
  /\ zoneReturned
  /\ zonesHolding(args.lat, args.lng) = {}
  /\ \E y, z \in zonesWithin(args.lat, args.lng) :
       /\ y < z
       /\ insideBuffer(args.lat, args.lng, y) # insideBuffer(args.lat, args.lng, z)
  /\ Get(ret).addition > 0

(***************************************************************************)
(* The traffic term of a point score                                       *)
(***************************************************************************)
\* the base traffic modifier of the call that returned
baseOf(a) == baseTrafMod(a.lat, a.lng, a.speedBands)

\* no industrial polygon holds the point and none is within 300 m of it
outsideIndustry(lat, lng) == zonesHolding(lat, lng) = {} /\ zonesWithin(lat, lng) = {}

\* C21: the traffic modifier computeScore reports is in [0, 4.5], is never smaller than
\* the base traffic modifier of the point, and equals it for a point outside every
\* industrial zone and buffer.
C21_ZoneAmplifiedTraffic ==
  scoreReturned =>
    /\ 0 <= Get(ret).trafficMod /\ Get(ret).trafficMod <= 45 * Tenth
    /\ Get(ret).trafficMod >= baseOf(args)
    /\ Get(ret).breakdown.trafficModifier = Get(ret).trafficMod
    /\ outsideIndustry(args.lat, args.lng) => Get(ret).trafficMod = baseOf(args)

\* a point inside an industrial zone on a jammed expressway: 4.0 * 1.8 + 1.2 is capped
C21_Witness ==
  /\ scoreReturned
  /\ zonesHolding(args.lat, args.lng) # {}
  /\ baseOf(args) = 40 * Tenth
  /\ Get(ret).trafficMod = 45 * Tenth

(***************************************************************************)
(* The green corridor of a route                                           *)
(***************************************************************************)
\* the base of the grid cell nearest to a scored point, 3.0 without one
nearestBase(p, grid) ==
  IF IsSome(findNearestCell(p.lat, p.lng, grid))
  THEN Get(findNearestCell(p.lat, p.lng, grid)).base
  ELSE 3 * Unit

\* the number of points of the route that satisfy a condition
howMany(pts, Holds(_)) == Cardinality({i \in 1..Len(pts) : Holds(pts[i])})

gridGreen(pts, grid) == howMany(pts, LAMBDA p : 2 * nearestBase(p, grid) <= 3 * Unit)
gridPark(pts, grid) == howMany(pts, LAMBDA p : 2 * nearestBase(p, grid) <= 5 * Unit)
zoneGreen(pts) == howMany(pts, LAMBDA p : p.greenZone)
zonePark(pts) == howMany(pts, LAMBDA p : p.nearGreenZone)

\* round(min(100, 70 * g / n + 30 * p / n)) in whole numbers
corridorOf(g, p, n) == Min(100, (2 * (70 * g + 30 * p) + n) \div (2 * n))

\* the route with a zone flag set on point i
flagged(pts, i, isPark) ==
  [pts EXCEPT ![i] = IF isPark THEN [@ EXCEPT !.nearGreenZone = TRUE]
                               ELSE [@ EXCEPT !.greenZone = TRUE]]

DetailTexts ==
  << << "Minimal road exhaust exposure", "Some road-adjacent stretches",
        "Significant traffic exposure", "Heavy traffic along much of the route" >>,
     << "Clean air throughout", "Generally good air",
        "Moderate pollution levels", "Poor air quality conditions" >>,
     << "Mostly through parks and green space", "Good mix of greenery",
        "Some green sections", "Mostly urban, limited greenery" >>,
     << "Even conditions throughout", "Mostly consistent",
        "Some bad patches along the way", "Quality varies a lot - expect bad stretches" >> >>

\* the step of a percentage on the ladder >= 80, >= 60, >= 40, else
stepOf(pct) == IF pct >= 80 THEN 1 ELSE IF pct >= 60 THEN 2 ELSE IF pct >= 40 THEN 3 ELSE 4

\* the step of a percentage on the ladder >= 80, >= 65, >= 50, >= 35, else
fiveStepOf(pct) ==
  IF pct >= 80 THEN 1 ELSE IF pct >= 65 THEN 2 ELSE IF pct >= 50 THEN 3
  ELSE IF pct >= 35 THEN 4 ELSE 5

\* the text the code selects for factor k at a percentage
detailTextAt(k, pct) ==
  CASE k = 1 -> trafficDetail(pct)
    [] k = 2 -> airDetail(pct)
    [] k = 3 -> greenDetail(pct)
    [] k = 4 -> consistencyDetail(pct)

\* the whole percentage of count in n, rounded half up
wholePct(count, n) == (200 * count + n) \div (2 * n)

\* the note of a detail: the percentage, if it is not zero
noteOf(pct) == IF pct > 0 THEN Some(pct) ELSE None

\* C23 as stated: the detail of each factor is selected by the five-step ladder
\* >= 80, >= 65, >= 50, >= 35, else on the factor's percentage, so any two percentages
\* on the same step of that ladder select the same text.
C23_FiveStepLadder ==
  rateReturnedNonEmpty =>
    \A k \in 1..4 : \A q \in 0..100 :
      fiveStepOf(q) = fiveStepOf(Get(ret).factors[k].pct)
        => detailTextAt(k, q) = Get(ret).factors[k].detail.text

\* C23 amended: the detail of each factor is the text of its own four texts selected by
\* the four-step ladder >= 80, >= 60, >= 40, else on the factor's percentage; the traffic
\* detail carries the percentage of points flagged industrialZone as a note when that
\* is not zero, the green corridor detail the percentage of points flagged greenZone
\* when that is not zero, and the other two carry no note.
C23_DetailLadder ==
  rateReturnedNonEmpty =>
    /\ \A k \in 1..4 :
         Get(ret).factors[k].detail.text = DetailTexts[k][stepOf(Get(ret).factors[k].pct)]
    /\ Get(ret).factors[1].detail.note =
         noteOf(wholePct(howMany(args.scoredPoints, LAMBDA p : p.industrialZone),
                         Len(args.scoredPoints)))
    /\ Get(ret).factors[3].detail.note =
         noteOf(wholePct(zoneGreen(args.scoredPoints), Len(args.scoredPoints)))
    /\ Get(ret).factors[2].detail.note = None
    /\ Get(ret).factors[4].detail.note = None

\* a percentage from 60 to 64, where the two ladders part, has the second text of its
\* factor, on a route with an industrial note
C23_Witness ==
  /\ rateReturnedNonEmpty
  /\ \E k \in 1..4 :
       /\ Get(ret).factors[k].pct >= 60
       /\ Get(ret).factors[k].pct < 65
       /\ Get(ret).factors[k].detail.text = DetailTexts[k][2]
  /\ IsSome(Get(ret).factors[1].detail.note)

(***************************************************************************)
(* The summary of a route                                                  *)
(***************************************************************************)
FactorLabels == << "Traffic Exposure", "Air Quality", "Green Corridor", "Consistency" >>

\* the sentence for an overall rating on the ladder >= 85, >= 70, >= 55, >= 40, else
sentenceOf(overall) ==
  << "Excellent route - clean air, low traffic, great for hard efforts.",
     "Good route for running with minor compromises.",
     "Decent but has some traffic or pollution exposure.",
     "Below average - consider alternatives if available.",
     "Poor conditions - heavy traffic and pollution exposure." >>
    [IF overall >= 85 THEN 1 ELSE IF overall >= 70 THEN 2 ELSE IF overall >= 55 THEN 3
     ELSE IF overall >= 40 THEN 4 ELSE 5]

\* the smallest of the four percentages and the first factor that has it
smallestPct(r) ==
  CHOOSE m \in {r.factors[k].pct : k \in 1..4} : \A k \in 1..4 : m <= r.factors[k].pct

firstSmallest(r) ==
  CHOOSE k \in 1..4 :
    /\ r.factors[k].pct = smallestPct(r)
    /\ \A j \in 1..4 : r.factors[j].pct = smallestPct(r) => k <= j

\* C24: the base sentence of the summary is chosen by overall >= 85, >= 70, >= 55,
\* >= 40, else; a main concern is appended if and only if the smallest factor
\* percentage is below 60, and it is the detail of the first factor, in the order
\* Traffic Exposure, Air Quality, Green Corridor, Consistency, with that percentage.
C24_RouteSummary ==
  rateReturnedNonEmpty =>
    /\ [k \in 1..4 |-> Get(ret).factors[k].label] = FactorLabels
    /\ Get(ret).summary.base = sentenceOf(Get(ret).overall)
    /\ IsSome(Get(ret).summary.concern) <=> smallestPct(Get(ret)) < 60
    /\ smallestPct(Get(ret)) < 60 =>
         Get(ret).summary.concern = Some(Get(ret).factors[firstSmallest(Get(ret))].detail)

\* two factors share the smallest percentage, their details differ, and the concern is
\* the detail of the first of them
C24_Witness ==
  /\ rateReturnedNonEmpty
  /\ \E j, k \in 1..4 :
       /\ j < k
       /\ Get(ret).factors[j].pct = smallestPct(Get(ret))
       /\ Get(ret).factors[k].pct = smallestPct(Get(ret))
       /\ Get(ret).factors[j].detail # Get(ret).factors[k].detail
  /\ IsSome(Get(ret).summary.concern)

(***************************************************************************)
(* The road class of a segment                                             *)
(***************************************************************************)
\* the name holds one of the expressway codes or names, in any case
namesExpressway(name) ==
  \E e \in {EXPRESSWAYS[i] : i \in 1..Len(EXPRESSWAYS)}
           \cup {<< "E", "X", "P", "R", "E", "S", "S", "W", "A", "Y" >>,
                 << "H", "I", "G", "H", "W", "A", "Y" >>} :
    includes(toUpperCase(name), e)

\* the segments with the road class written out: the segment's own, 0 for a name with
\* an expressway in it, and otherwise unnamed for a segment without a name and named
\* for one with a name
resolved(bands, unnamed, named) ==
  [i \in 1..Len(bands) |->
     IF IsSome(bands[i].frc) THEN bands[i]
     ELSE [bands[i] EXCEPT !.frc = Some(IF namesExpressway(bands[i].roadName) THEN 0
                                        ELSE IF Len(bands[i].roadName) = 0 THEN unnamed
                                        ELSE named)]]

\* the segments without a road class of their own that lie within the radius
inferredNear(lat, lng, bands) ==
  {i \in 1..Len(bands) :
     /\ ~IsSome(bands[i].frc)
     /\ ~skipped(bands[i])
     /\ segmentDistance(lat, lng, bands[i]) < TRAFFIC_RADIUS}

\* C25 as stated: a segment's own frc is used when present; without one, a name with an
\* expressway code or name in it gives frc 0 and every other segment, whatever its
\* name, frc 2.
C25_DefaultArterial ==
  trafficReturned =>
    /\ Get(ret) = trafficModifier(args.lat, args.lng, resolved(args.speedBands, 2, 2))
    /\ \A i \in 1..Len(args.speedBands) :
         frcOf(args.speedBands[i]) = frcOf(resolved(args.speedBands, 2, 2)[i])

\* C25 amended: a segment's own frc is used when present (0 included); without one, an
\* empty name gives frc 3 (road volume 0.5), a name with an expressway code or name in
\* it, in any case and as a substring, gives frc 0, and every other name gives frc 2
\* (road volume 0.7).
C25_RoadClassResolution ==
  trafficReturned =>
    /\ Get(ret) = trafficModifier(args.lat, args.lng, resolved(args.speedBands, 3, 2))
    /\ \A i \in 1..Len(args.speedBands) :
         /\ frcOf(args.speedBands[i]) = frcOf(resolved(args.speedBands, 3, 2)[i])
         /\ (~IsSome(args.speedBands[i].frc) /\ Len(args.speedBands[i].roadName) = 0)
              => roadVolumeBaseline(frcOf(args.speedBands[i])) = 50
         /\ (~IsSome(args.speedBands[i].frc) /\ Len(args.speedBands[i].roadName) > 0
               /\ ~namesExpressway(args.speedBands[i].roadName))
              => roadVolumeBaseline(frcOf(args.speedBands[i])) = 70

\* an unnamed segment without a road class lies within the radius, and the result is
\* not the one it would get as an arterial road
C25_Witness ==
  /\ trafficReturned
  /\ \E i \in inferredNear(args.lat, args.lng, args.speedBands) :
       Len(args.speedBands[i].roadName) = 0
  /\ Get(ret) > 0
  /\ Get(ret) # trafficModifier(args.lat, args.lng, resolved(args.speedBands, 2, 2))

(***************************************************************************)
(* The nearest cell of a grid                                              *)
(***************************************************************************)
cellReturned == op = "findNearestCell" /\ IsSome(ret)

\* |dlat| + |dlng| in microdegrees
l1(cell, lat, lng) == Abs(cell.lat - lat) + Abs(cell.lng - lng)

\* the first cell of the list that satisfies a condition
firstCell(cells, Holds(_)) ==
  cells[CHOOSE k \in 1..Len(cells) : Holds(cells[k]) /\ \A j \in 1..(k - 1) : ~Holds(cells[j])]

\* the first of the cells at the smallest distance
firstNearest(cells, lat, lng) ==
  firstCell(cells, LAMBDA c : \A k \in 1..Len(cells) : l1(c, lat, lng) <= l1(cells[k], lat, lng))

\* some cell is less than 0.00001 degrees away
closeEnough(cells, lat, lng) == \E k \in 1..Len(cells) : l1(cells[k], lat, lng) < 10

\* C26 as stated: findNearestCell returns null if and only if the grid is missing or
\* has no cells, and otherwise the first cell in list order among those at the
\* smallest L1 distance from the point.
C26_NearestCell ==
  cellReturned =>
    IF noCells(args.grid) THEN Get(ret) = None
    ELSE Get(ret) = Some(firstNearest(Get(args.grid).cells, args.lat, args.lng))

\* C26 amended: findNearestCell returns null if and only if the grid is missing or has
\* no cells; otherwise, if some cell is less than 0.00001 degrees (L1) from the point, it
\* returns the first such cell in list order, where the scan stops, and if none is, the
\* first cell among those at the smallest L1 distance.
C26_NearestOrCloseEnough ==
  cellReturned =>
    IF noCells(args.grid) THEN Get(ret) = None
    ELSE IF closeEnough(Get(args.grid).cells, args.lat, args.lng)
    THEN Get(ret) = Some(firstCell(Get(args.grid).cells,
                                   LAMBDA c : l1(c, args.lat, args.lng) < 10))
    ELSE Get(ret) = Some(firstNearest(Get(args.grid).cells, args.lat, args.lng))

\* the scan stopped at a cell less than 0.00001 degrees away although a later cell is
\* nearer
C26_Witness ==
  /\ cellReturned
  /\ ~noCells(args.grid)
  /\ IsSome(Get(ret))
  /\ l1(Get(Get(ret)), args.lat, args.lng) < 10
  /\ l1(firstNearest(Get(args.grid).cells, args.lat, args.lng), args.lat, args.lng)
       < l1(Get(Get(ret)), args.lat, args.lng)

(***************************************************************************)
(* The one rounding of a point score                                       *)
(***************************************************************************)
\* the static base after the green-zone clamp the call reported
effectiveBase(a, r) ==
  IF r.isGreenZone THEN Min(nearestBase(a, a.grid), 12 * Tenth)
  ELSE IF r.isNearGreenZone THEN Min(nearestBase(a, a.grid), 20 * Tenth)
  ELSE nearestBase(a, a.grid)

\* min(4.5, base * multiplier + addition), not rounded
trafficTerm(a) ==
  Min(45 * Tenth,
      (baseOf(a) * industrialModifier(a.lat, a.lng, cosOf(a.lat)).multiplier) \div MultDen
        + industrialModifier(a.lat, a.lng, cosOf(a.lat)).addition)

\* the weather modifiers, 0 without conditions, and the time modifier of the hour used
weatherTerms(a, hour) ==
  (IF IsSome(a.conditions)
   THEN pm25Modifier(Get(a.conditions).pm25) + windModifier(Get(a.conditions).wind)
          + rainModifier(Get(a.conditions).isRaining, Get(a.conditions).intensity)
   ELSE 0)
  + timeModifier(hour)

rawOf(a, r, hour) == effectiveBase(a, r) + weatherTerms(a, hour) + trafficTerm(a)

\* the hour of the call: the one passed, or the one the clock showed
hourUsed(a, clock) == IF IsSome(a.hour) THEN Get(a.hour) ELSE clock

\* C27: the score is the sum of the unrounded parts (effective static base, PM2.5,
\* wind, time and rain modifiers, zone-amplified traffic term) rounded once to a
\* tenth and clamped to [1, 10]; the breakdown and trafficMod are the parts rounded to
\* a tenth each, for display.
C27_SingleFinalRounding ==
  scoreReturned =>
    /\ Get(ret).score =
         Max(Unit, Min(10 * Unit, Round1(rawOf(args, Get(ret), hourUsed(args, at)))))
    /\ Get(ret).breakdown.staticBase = Round1(effectiveBase(args, Get(ret)))
    /\ Get(ret).breakdown.trafficModifier = Round1(trafficTerm(args))
    /\ Get(ret).trafficMod = Round1(trafficTerm(args))

\* the score is not the rounded and clamped sum of the breakdown
C27_Witness ==
  /\ scoreReturned
  /\ Get(ret).score # Max(Unit, Min(10 * Unit, Round1(partsOf(Get(ret)))))
  /\ Get(ret).score > Unit
  /\ Get(ret).score < 10 * Unit

(***************************************************************************)
(* The hour of a pass over a route                                         *)
(***************************************************************************)
\* C28: within one scoreRoutePoints pass every sample is scored with the same hour:
\* the time-of-day modifier applied is the same for all points of the returned list,
\* which is the list scored at the hour the clock showed for the first sample, also
\* when the hour changes during the pass.
C28_OneHourPerPass ==
  routeReturned =>
    /\ \A i, j \in 1..Len(args.interpolated) : timeModifier(at[i]) = timeModifier(at[j])
    /\ \A i \in 1..Len(args.interpolated) :
         reports(Get(ret)[i], args.interpolated[i], aloneAt(args.interpolated[i], at[1]))

(***************************************************************************)
(* C29  Score history stays bounded.  After any sequence of saveSnapshot   *)
(* calls with non-decreasing timestamps every route in the stored history  *)
(* has between 1 and MAX_SNAPSHOTS snapshots, the most recent ones of that *)
(* route in call order (after a call: what it had before, with the new     *)
(* snapshot behind them for the route of the call, cut to the last         *)
(* MAX_SNAPSHOTS), the history holds at most MAX_ROUTES routes, and the    *)
(* route of the latest call is present with its new snapshot last.         *)
(***************************************************************************)
saved == op = "saveSnapshot" /\ IsSome(args)

\* the snapshot the latest call wrote
newSnapshot == [timestamp |-> toISOString(at[Len(at)]), overall |-> Get(args).overall]

\* the last n elements of s
lastOf(s, n) == IF Len(s) > n THEN SubSeq(s, Len(s) - n + 1, Len(s)) ELSE s

\* the snapshots taken of a route up to the latest call, as far as the
\* history before the call kept them
takenOf(routeId) ==
  IF routeId = Get(args).routeId
  THEN Append(getHistory(Get(prev), routeId), newSnapshot)
  ELSE getHistory(Get(prev), routeId)

snapshotsBounded ==
  \A i \in 1..Len(storage) :
    Len(storage[i].snapshots) >= 1 /\ Len(storage[i].snapshots) <= MAX_SNAPSHOTS

routesBounded == Len(storage) <= MAX_ROUTES

mostRecentKept ==
  \A i \in 1..Len(storage) :
    storage[i].snapshots = lastOf(takenOf(storage[i].routeId), MAX_SNAPSHOTS)

latestPresent ==
  /\ getHistory(storage, Get(args).routeId) # << >>
  /\ getHistory(storage, Get(args).routeId)[Len(getHistory(storage, Get(args).routeId))]
       = newSnapshot

C29_HistoryBounded ==
  op = "saveSnapshot" =>
    /\ snapshotsBounded
    /\ routesBounded
    /\ saved => mostRecentKept /\ latestPresent

\* the same with every call's timestamp later than all the history holds
strictlyLater ==
  Get(prev) = << >> \/ localeCompare(newest(Get(prev)), toISOString(at[Len(at)])) < 0

HistoryBoundedWhenLater ==
  op = "saveSnapshot" =>
    /\ snapshotsBounded
    /\ routesBounded
    /\ saved => mostRecentKept /\ (strictlyLater => latestPresent)

(***************************************************************************)
(* C30  The analyzing flag tracks in-flight work.  While an analysis       *)
(* (analyzeGPX or analyzeCoordinates, started by an upload, a click on a   *)
(* saved route, the reverse button or the auto-refresh) has started and    *)
(* not settled, analyzing is true, so that it is false only once the last  *)
(* one in flight has settled; and once all have settled the active route   *)
(* is the result of the analysis that was started last.                    *)
(***************************************************************************)
\* how the analysis started last ended, None while it is in flight or when
\* it failed
resultOfLast ==
  IF \E s \in page.settled : s.n = page.started
  THEN (CHOOSE s \in page.settled : s.n = page.started).result
  ELSE None

C30_AnalyzingTracksInFlight ==
  op = "Home" =>
    /\ page.inFlight # {} => page.analyzing
    /\ page.inFlight = {} /\ IsSome(resultOfLast) => page.activeRoute = resultOfLast

=============================================================================
